---------------------------- MODULE Spec2Model ----------------------------
(***************************************************************************)
(* A model of the taxonomy integration engine of blobtoolkit/core:         *)
(*   rust/src/taxonomy/parse.rs   (tree store, dump parsers, dump writer,  *)
(*                                 ingest pipeline, graft engine)          *)
(*   rust/src/taxonomy/lookup.rs  (lookup indices, name resolver,          *)
(*                                 lookup_nodes graft)                     *)
(*                                                                         *)
(* Representation.  A Rust String is a TLA+ string; TLC evaluates Len,     *)
(* SubSeq, Head, Tail and \o on strings, so text is handled character by   *)
(* character where the code does so.  Option<T> is a sequence of length 0  *)
(* (None) or 1 (Some).  A Vec is a sequence.  A HashMap is a function      *)
(* whose DOMAIN is its key set.  The Vec<String> values of                 *)
(* Nodes.children are bags: the order of a child list is the order of the  *)
(* pushes, which for merge and the grafts is the unspecified iteration     *)
(* order of a HashMap, and no code modelled here reads a position of it.   *)
(* Node.names is Option<Vec<Name>>: None is the empty sequence (every      *)
(* Some(..) the code builds is non-empty).                                 *)
(***************************************************************************)
EXTENDS Integers, Sequences, FiniteSets, Bags, TLC

None == <<>>
Some(x) == <<x>>

(***************************************************************************)
(* Text helpers                                                            *)
(***************************************************************************)
CharAt(s, i) == SubSeq(s, i, i)

LowerChars == "abcdefghijklmnopqrstuvwxyz"
UpperChars == "ABCDEFGHIJKLMNOPQRSTUVWXYZ"
DigitChars == "0123456789"

InChars(c, chars) == \E i \in 1..Len(chars) : CharAt(chars, i) = c
IsUpper(c) == InChars(c, UpperChars)
IsLower(c) == InChars(c, LowerChars)
IsDigit(c) == InChars(c, DigitChars)
\* char::is_alphanumeric, on the ASCII text of the model
is_alphanumeric(c) == IsUpper(c) \/ IsLower(c) \/ IsDigit(c)
\* char::to_ascii_lowercase
to_ascii_lowercase(c) ==
    IF IsUpper(c)
    THEN CharAt(LowerChars, CHOOSE i \in 1..Len(UpperChars) : CharAt(UpperChars, i) = c)
    ELSE c

\* First position of pat in s at or after i; 0 when there is none.
RECURSIVE FindFrom(_, _, _)
FindFrom(s, pat, i) ==
    IF i + Len(pat) - 1 > Len(s) THEN 0
    ELSE IF SubSeq(s, i, i + Len(pat) - 1) = pat THEN i
    ELSE FindFrom(s, pat, i + 1)

starts_with(s, pat) == Len(s) >= Len(pat) /\ SubSeq(s, 1, Len(pat)) = pat

RECURSIVE JoinStr(_, _)
JoinStr(values, sep) ==
    IF Len(values) = 0 THEN ""
    ELSE IF Len(values) = 1 THEN values[1]
    ELSE values[1] \o sep \o JoinStr(Tail(values), sep)

RECURSIVE Reverse(_)
Reverse(s) == IF Len(s) = 0 THEN <<>> ELSE Append(Reverse(Tail(s)), Head(s))

RECURSIVE SetToSeq(_)
SetToSeq(S) == IF S = {} THEN <<>>
               ELSE LET x == CHOOSE y \in S : TRUE IN <<x>> \o SetToSeq(S \ {x})

SeqToSet(s) == {s[i] : i \in 1..Len(s)}

\* The permutations of a finite set, as sequences: the orders in which a
\* HashMap may be iterated.
RECURSIVE Orders(_)
Orders(S) == IF S = {} THEN {<<>>}
             ELSE UNION {{<<x>> \o o : o \in Orders(S \ {x})} : x \in S}

(***************************************************************************)
(* convert_case: s.to_case(Case::Lower).  The string is split into words   *)
(* at the delimiters space, hyphen and underscore and at a lower-to-upper  *)
(* case change, empty words are dropped, and the lowercased words are      *)
(* joined with one space.  (convert_case also splits between a letter and  *)
(* a digit and inside a run of capitals; no name of this model has         *)
(* either.)                                                                *)
(***************************************************************************)
IsDelim(c) == c = " " \/ c = "-" \/ c = "_"

RECURSIVE SplitWords(_, _, _)
SplitWords(s, word, prev) ==
    IF Len(s) = 0 THEN (IF word = "" THEN <<>> ELSE <<word>>)
    ELSE LET c == Head(s) IN
         IF IsDelim(c)
         THEN (IF word = "" THEN <<>> ELSE <<word>>) \o SplitWords(Tail(s), "", c)
         ELSE IF IsUpper(c) /\ IsLower(prev) /\ word # ""
         THEN <<word>> \o SplitWords(Tail(s), to_ascii_lowercase(c), c)
         ELSE SplitWords(Tail(s), word \o to_ascii_lowercase(c), c)

to_case_lower(s) == JoinStr(SplitWords(s, "", ""), " ")

(***************************************************************************)
(* NCBI dump line syntax (nom):                                            *)
(*   separated_list0(tag("\t|\t"), take_until("\t|"))                      *)
(***************************************************************************)
FIELD_SEP == "\t|\t"
FIELD_END == "\t|"

\* take_until(pat): the text before the first pat and the rest from pat on;
\* an error (ok = FALSE) when pat does not occur.
take_until(pat, input) ==
    LET i == FindFrom(input, pat, 1) IN
    IF i = 0 THEN [ok |-> FALSE, out |-> "", rest |-> input]
    ELSE [ok |-> TRUE, out |-> SubSeq(input, 1, i - 1),
          rest |-> SubSeq(input, i, Len(input))]

\* The loop of separated_list0 after the first element: input is the text
\* left, res the elements so far.
RECURSIVE separated_list0_loop(_, _)
separated_list0_loop(input, res) ==
    IF ~starts_with(input, FIELD_SEP) THEN [rest |-> input, v |-> res]
    ELSE LET e == take_until(FIELD_END,
                             SubSeq(input, Len(FIELD_SEP) + 1, Len(input))) IN
         IF ~e.ok THEN [rest |-> input, v |-> res]
         ELSE separated_list0_loop(e.rest, Append(res, e.out))

separated_list0(input) ==
    LET e == take_until(FIELD_END, input) IN
    IF ~e.ok THEN [rest |-> input, v |-> <<>>]
    ELSE separated_list0_loop(e.rest, <<e.out>>)

(***************************************************************************)
(* Name and Node                                                           *)
(***************************************************************************)
SCIENTIFIC_NAME == "scientific name"
MERGED_TAXON_ID == "merged taxon id"
SYNONYM == "synonym"

\* Name { ..Default::default() }
Name_default == [tax_id |-> "", name |-> "", unique_name |-> "", class |-> None]

\* Name::parse taking unique_name as it is written, whatever the label
Name_parse_unlabelled(input, xref_label) ==
    LET v == separated_list0(input).v IN
    [tax_id |-> v[1], name |-> v[2], unique_name |-> v[3], class |-> Some(v[4])]

\* Name::parse(input, xref_label); the remaining input is dropped by the
\* callers (.unwrap().1).
Name_parse(input, xref_label) ==
    LET v == separated_list0(input).v IN
    [tax_id |-> v[1],
     name |-> v[2],
     unique_name |-> IF v[3] # "" THEN v[3]
                     ELSE IF xref_label # None THEN xref_label[1] \o ":" \o v[2]
                     ELSE "",
     class |-> Some(v[4])]

\* Name::parse_merged(input)
Name_parse_merged(input) ==
    LET v == separated_list0(input).v IN
    [Name_default EXCEPT !.tax_id = v[2], !.name = v[1],
                         !.class = Some(MERGED_TAXON_ID)]

\* impl Display for Name
Name_fmt(name) ==
    JoinStr(<<name.tax_id, name.name, name.unique_name,
              IF name.class = None THEN "" ELSE name.class[1]>>, FIELD_SEP)
    \o FIELD_END

\* Node::parse(input)
Node_parse(input) ==
    LET v == separated_list0(input).v IN
    [tax_id |-> v[1], parent_tax_id |-> v[2], rank |-> v[3],
     names |-> None, scientific_name |-> None]

\* impl Display for Node: names and scientific_name are not printed.
Node_fmt(node) ==
    JoinStr(<<node.tax_id, node.parent_tax_id, node.rank>>, FIELD_SEP) \o FIELD_END

\* Node::rank_letter without the letter of its own for subspecies
rank_letter_first_char(node) == Head(node.rank)

\* Node::rank_letter
rank_letter(node) == IF node.rank = "subspecies" THEN "b" ELSE Head(node.rank)

\* Node::scientific_name()
scientific_name(node) ==
    IF node.scientific_name = None THEN "" ELSE node.scientific_name[1]

lc_tax_id(node) == to_case_lower(node.tax_id)
lc_scientific_name(node) == to_case_lower(scientific_name(node))

RANKS == <<"subspecies", "species", "genus", "family", "order", "class",
           "phylum", "kingdom">>
HIGHER_RANKS == <<"family", "order", "class", "phylum", "kingdom">>
rank_set == SeqToSet(RANKS)
higher_rank_set == SeqToSet(HIGHER_RANKS)

\* Node::names_by_class(Some(classes), lc = true)
RECURSIVE names_by_class_loop(_, _)
names_by_class_loop(names, classes) ==
    IF Len(names) = 0 THEN <<>>
    ELSE LET name == Head(names) IN
         (IF name.class # None /\ name.class[1] \in classes
          THEN <<to_case_lower(name.name)>> ELSE <<>>)
         \o names_by_class_loop(Tail(names), classes)

names_by_class(node, classes) == names_by_class_loop(node.names, classes)

(***************************************************************************)
(* Nodes { nodes, children }                                               *)
(***************************************************************************)
EmptyMap == [k \in {} |-> {}]
Nodes_default == [nodes |-> EmptyMap, children |-> EmptyMap]

\* HashMap::insert
Insert(map, key, value) ==
    IF key \in DOMAIN map THEN [map EXCEPT ![key] = value] ELSE map @@ (key :> value)

\* match children.entry(parent) { Vacant => insert(vec![child]),
\*                                Occupied => push(child) }
PushChild(children, parent, child) ==
    IF parent \in DOMAIN children
    THEN [children EXCEPT ![parent] = @ (+) SetToBag({child})]
    ELSE children @@ (parent :> SetToBag({child}))

\* if parent != child { ...entry(parent)... }
PushChildUnlessSelf(children, parent, child) ==
    IF parent # child THEN PushChild(children, parent, child) ELSE children

ChildCount(children, parent, child) ==
    IF parent \in DOMAIN children THEN CopiesIn(child, children[parent]) ELSE 0

\* names.push(name) on Option<Vec<Name>>: Some(vec![name]) when it was None
PushName(node, name) == [node EXCEPT !.names = Append(@, name)]

\* Nodes::parent.  self.nodes.get(taxon_id).unwrap() panics on an unknown
\* id: the callers below test for that first.
parent(nodes, taxon_id) ==
    LET node == nodes[taxon_id] IN
    IF node.parent_tax_id \in DOMAIN nodes THEN Some(nodes[node.parent_tax_id])
    ELSE None

\* Nodes::parent on any id, with how the call ends: status "panic" is the
\* unwrap of self.nodes.get(taxon_id) on an id that is not in the tree
parent_run(nodes, taxon_id) ==
    IF taxon_id \notin DOMAIN nodes THEN [status |-> "panic", node |-> None]
    ELSE [status |-> "ok", node |-> parent(nodes, taxon_id)]

\* The while loop of Nodes::lineage.  acc is the Vec `nodes` in push order.
\* The loop has no state but tax_id after its first pass (prev_tax_id is
\* then the id just left), so a walk of more hops than there are nodes
\* repeats a state and never ends: status "diverges".  status "panic" is
\* the unwrap in Nodes::parent on an id that is not in the tree.
RECURSIVE lineage_loop(_, _, _, _, _, _)
lineage_loop(nodes, root_id, tax_id, prev_tax_id, acc, fuel) ==
    IF tax_id = root_id THEN [status |-> "ok", nodes |-> acc]
    ELSE IF tax_id \notin DOMAIN nodes THEN [status |-> "panic", nodes |-> acc]
    ELSE IF fuel = 0 THEN [status |-> "diverges", nodes |-> acc]
    ELSE LET p == parent(nodes, tax_id) IN
         IF p = None THEN [status |-> "ok", nodes |-> acc]
         ELSE IF p[1].tax_id = prev_tax_id
         THEN [status |-> "ok", nodes |-> Append(acc, p[1])]
         ELSE lineage_loop(nodes, root_id, p[1].tax_id, p[1].tax_id,
                           Append(acc, p[1]), fuel - 1)

\* Nodes::lineage returning the Vec in push order, without the final rev()
lineage_run_push_order(nodes, root_id, taxon_id) ==
    LET r == lineage_loop(nodes, root_id, taxon_id, taxon_id, <<>>,
                          Cardinality(DOMAIN nodes) + 1)
    IN [status |-> r.status, nodes |-> r.nodes]

\* Nodes::lineage(root_id, taxon_id), with how the call ends
lineage_run(nodes, root_id, taxon_id) ==
    LET r == lineage_loop(nodes, root_id, taxon_id, taxon_id, <<>>,
                          Cardinality(DOMAIN nodes) + 1)
    IN [status |-> r.status, nodes |-> Reverse(r.nodes)]

\* Nodes::lineage(root_id, taxon_id): the Vec<&Node> returned
lineage(nodes, root_id, taxon_id) == lineage_run(nodes, root_id, taxon_id).nodes

(***************************************************************************)
(* parse_taxdump(taxdump, xref_label).  taxdump is the directory read:     *)
(* [nodes, names : Seq(line), merged : Option<Seq(line)>] (merged.dmp is   *)
(* optional).  The unwraps on nodes.get_mut(&name.tax_id) hold for the     *)
(* dumps of the model: every name line names a node of nodes.dmp.          *)
(***************************************************************************)
RECURSIVE parse_nodes_dmp(_, _, _)
parse_nodes_dmp(lines, nodes, children) ==
    IF Len(lines) = 0 THEN [nodes |-> nodes, children |-> children]
    ELSE LET node == Node_parse(Head(lines)) IN
         parse_nodes_dmp(Tail(lines),
                         Insert(nodes, node.tax_id, node),
                         PushChildUnlessSelf(children, node.parent_tax_id, node.tax_id))

RECURSIVE parse_names_dmp(_, _, _)
parse_names_dmp(lines, nodes, xref_label) ==
    IF Len(lines) = 0 THEN nodes
    ELSE LET name == Name_parse(Head(lines), xref_label)
             node == nodes[name.tax_id]
             named == IF name.class = Some(SCIENTIFIC_NAME)
                      THEN [node EXCEPT !.scientific_name = Some(name.name)]
                      ELSE node
         IN parse_names_dmp(Tail(lines),
                            [nodes EXCEPT ![name.tax_id] = PushName(named, name)],
                            xref_label)

RECURSIVE parse_merged_dmp(_, _)
parse_merged_dmp(lines, nodes) ==
    IF Len(lines) = 0 THEN nodes
    ELSE LET name == Name_parse_merged(Head(lines)) IN
         parse_merged_dmp(Tail(lines),
                          [nodes EXCEPT ![name.tax_id] = PushName(@, name)])

parse_taxdump(taxdump, xref_label) ==
    LET t == parse_nodes_dmp(taxdump.nodes, EmptyMap, EmptyMap)
        named == parse_names_dmp(taxdump.names, t.nodes, xref_label)
    IN IF taxdump.merged = None THEN [nodes |-> named, children |-> t.children]
       ELSE [nodes |-> parse_merged_dmp(taxdump.merged[1], named),
             children |-> t.children]

(***************************************************************************)
(* Nodes::write_taxdump(root_ids, base_id, nodes_writer, names_writer).    *)
(* out is what the two writers hold: [status, nodes, names], the lines in  *)
(* the order written.  children[root_id] is walked in one order of the     *)
(* Vec; another order permutes whole subtrees of lines.  The recursion has *)
(* no end on a tree whose children lists form a cycle: status "overflow",  *)
(* found by a depth of more calls than there are nodes.                    *)
(***************************************************************************)
\* A Vec with the elements of a bag
RECURSIVE BagToSeq(_)
BagToSeq(bag) ==
    IF BagToSet(bag) = {} THEN <<>>
    ELSE LET x == CHOOSE y \in BagToSet(bag) : TRUE
         IN <<x>> \o BagToSeq(bag (-) SetToBag({x}))

\* writeln!(nodes_writer, "{}", node) and a line of names_writer for each
\* of its names
write_node(node, out) ==
    [out EXCEPT !.nodes = Append(@, Node_fmt(node)),
                !.names = @ \o [k \in 1..Len(node.names) |-> Name_fmt(node.names[k])]]

\* for anc_node in lineage { if !ancestors.contains(..) {..} }
RECURSIVE write_ancestors(_, _, _)
write_ancestors(lin, ancestors, out) ==
    IF Len(lin) = 0 THEN [ancestors |-> ancestors, out |-> out]
    ELSE IF Head(lin).tax_id \in ancestors
    THEN write_ancestors(Tail(lin), ancestors, out)
    ELSE write_ancestors(Tail(lin), ancestors \cup {Head(lin).tax_id},
                         write_node(Head(lin), out))

\* for root_id in root_ids {..}.  The calls write_taxdump(vec![child], None,
\* ..) for the children of a root are this loop over the children with no
\* base_id, one call deeper.
RECURSIVE write_roots(_, _, _, _, _, _)
write_roots(self, root_ids, base_id, ancestors, out, depth) ==
    IF Len(root_ids) = 0 THEN out
    ELSE IF depth = 0 THEN [out EXCEPT !.status = "overflow"]
    ELSE
    LET root_id == Head(root_ids)
        anc == IF base_id # None
               THEN write_ancestors(lineage(self.nodes, base_id[1], root_id),
                                    ancestors, out)
               ELSE [ancestors |-> ancestors, out |-> out]
        written == IF root_id \in DOMAIN self.nodes
                   THEN LET root_out == write_node(self.nodes[root_id], anc.out) IN
                        IF root_id \in DOMAIN self.children
                        THEN write_roots(self, BagToSeq(self.children[root_id]),
                                         None, {}, root_out, depth - 1)
                        ELSE root_out
                   ELSE anc.out
    IN write_roots(self, Tail(root_ids), base_id, anc.ancestors, written, depth)

write_taxdump(self, root_ids, base_id) ==
    write_roots(self, root_ids, base_id, {},
                [status |-> "ok", nodes |-> <<>>, names |-> <<>>],
                Cardinality(DOMAIN self.nodes) + 1)

(***************************************************************************)
(* parse_gbif(gbif_backbone).  A record of the backbone is                 *)
(* [tax_id (column 0), parent (1), status (4), rank (5), name (19)].       *)
(***************************************************************************)
GBIF_ROOT == "root"
gbif_ignore == {"DOUBTFUL", "MISAPPLIED", "HETEROTYPIC_SYNONYM",
                "HOMOTYPIC_SYNONYM", "PROPARTE_SYNONYM", "SYNONYM"}

gbif_root_node == [tax_id |-> GBIF_ROOT, parent_tax_id |-> GBIF_ROOT,
                   rank |-> "root", names |-> None, scientific_name |-> None]

\* One pass of `for result in rdr.records()`
gbif_record(record, nodes, children) ==
    IF record.status \in gbif_ignore THEN [nodes |-> nodes, children |-> children]
    ELSE
    LET tax_id == record.tax_id
        name_class == IF record.status = "ACCEPTED" THEN SCIENTIFIC_NAME ELSE SYNONYM
        taxon_name == record.name
        parent_tax_id == IF record.parent = "\\N" THEN GBIF_ROOT ELSE record.parent
        name == [Name_default EXCEPT !.tax_id = tax_id, !.name = taxon_name,
                                     !.class = Some(name_class)]
    IN IF tax_id \notin DOMAIN nodes
       THEN \* Entry::Vacant
            LET node == [tax_id |-> tax_id, parent_tax_id |-> parent_tax_id,
                         rank |-> to_case_lower(record.rank),
                         scientific_name |-> IF name_class = SCIENTIFIC_NAME
                                             THEN Some(taxon_name) ELSE None,
                         names |-> <<name>>]
            IN [nodes |-> Insert(nodes, tax_id, node),
                children |-> PushChildUnlessSelf(children, node.parent_tax_id,
                                                 node.tax_id)]
       ELSE \* Entry::Occupied: names.push only if names is Some
            LET e == nodes[tax_id]
                renamed == IF name_class = SCIENTIFIC_NAME
                           THEN [e EXCEPT !.scientific_name = Some(taxon_name)]
                           ELSE e
            IN [nodes |-> [nodes EXCEPT ![tax_id] =
                              IF renamed.names # None THEN PushName(renamed, name)
                              ELSE renamed],
                children |-> children]

RECURSIVE parse_gbif_loop(_, _, _)
parse_gbif_loop(records, nodes, children) ==
    IF Len(records) = 0 THEN [nodes |-> nodes, children |-> children]
    ELSE LET t == gbif_record(Head(records), nodes, children) IN
         parse_gbif_loop(Tail(records), t.nodes, t.children)

parse_gbif(gbif_backbone) ==
    parse_gbif_loop(gbif_backbone, (GBIF_ROOT :> gbif_root_node), EmptyMap)

(***************************************************************************)
(* Nodes::merge(&mut self, new_nodes)                                      *)
(***************************************************************************)
NO_RANK == "no rank"

\* One pass of `for node in new_nodes.nodes.iter()`
merge_node(node, nodes, children) ==
    [nodes |-> IF node.tax_id \in DOMAIN nodes
               THEN (IF nodes[node.tax_id].rank = NO_RANK
                     THEN Insert(nodes, node.tax_id, node) ELSE nodes)
               ELSE Insert(nodes, node.tax_id, node),
     children |-> PushChildUnlessSelf(children, node.parent_tax_id, node.tax_id)]

\* The passes touch different keys of nodes and only add to the bags of
\* children, so every iteration order gives the same result; ids is one.
RECURSIVE merge_loop(_, _, _, _)
merge_loop(ids, new_nodes, nodes, children) ==
    IF Len(ids) = 0 THEN [nodes |-> nodes, children |-> children]
    ELSE LET t == merge_node(new_nodes.nodes[Head(ids)], nodes, children) IN
         merge_loop(Tail(ids), new_nodes, t.nodes, t.children)

merge(self, new_nodes) ==
    merge_loop(SetToSeq(DOMAIN new_nodes.nodes), new_nodes, self.nodes, self.children)

(***************************************************************************)
(* build_lookup(nodes, name_classes, rank_letter) -> HashMap<String,       *)
(* Vec<String>>.  The Vec under a key is in the order of the pushes, which *)
(* follows the iteration order of nodes.nodes; the code reads only its     *)
(* length and, when that is 1, its element, so one order stands for all.   *)
(***************************************************************************)
ROOT_ID == "1"

\* The index of the first element of a Vec that passes a test, 0 if none
FirstIndex(seq, Test(_)) ==
    IF \E k \in 1..Len(seq) : Test(seq[k])
    THEN CHOOSE k \in 1..Len(seq) :
             Test(seq[k]) /\ \A m \in 1..(k - 1) : ~Test(seq[m])
    ELSE 0

RECURSIVE Concat(_)
Concat(ss) == IF Len(ss) = 0 THEN <<>> ELSE Head(ss) \o Concat(Tail(ss))

\* The (key, tax_id) pushes of one pass of `for (tax_id, node) in nodes.nodes`
lookup_entries(nodes, node, name_classes, with_letter) ==
    IF node.rank \notin rank_set THEN <<>>
    ELSE
    LET lin == Reverse(lineage(nodes, ROOT_ID, node.tax_id))
        names == names_by_class(node, name_classes)
        key(name, n, n_name) ==
            IF with_letter
            THEN rank_letter(node) \o ":" \o name \o ":" \o rank_letter(n) \o ":" \o n_name
            ELSE name \o ":" \o n_name
        for_n(n) ==
            LET n_names == names_by_class(n, name_classes) IN
            Concat([i \in 1..Len(names) |->
                Concat([j \in 1..Len(n_names) |->
                    IF n.rank \in higher_rank_set
                    THEN <<[key |-> key(names[i], n, n_names[j]), tax_id |-> node.tax_id]>>
                    ELSE <<>>])])
    IN Concat([k \in 1..Len(lin) |-> for_n(lin[k])])

\* The table that a sequence of pushes builds
TableOf(entries) ==
    [k \in {entries[i].key : i \in 1..Len(entries)} |->
        LET hits == SelectSeq(entries, LAMBDA e : e.key = k)
        IN [i \in 1..Len(hits) |-> hits[i].tax_id]]

build_lookup(nodes, name_classes, with_letter) ==
    LET ids == SetToSeq(DOMAIN nodes.nodes) IN
    TableOf(Concat([i \in 1..Len(ids) |->
        lookup_entries(nodes.nodes, nodes.nodes[ids[i]], name_classes, with_letter)]))

\* The index builders walk the lineage of every ranked node; on a tree
\* where one of those walks does not end they do not return.
IndexReturns(nodes) ==
    \A t \in DOMAIN nodes.nodes :
        nodes.nodes[t].rank \in rank_set =>
            lineage_run(nodes.nodes, ROOT_ID, t).status = "ok"

(***************************************************************************)
(* lookup_nodes(new_nodes, nodes, new_name_classes, name_classes,          *)
(* xref_label, create_taxa).  st is what the loops carry: the reference    *)
(* tree nodes, the table and the map matched.  by_rank[rank] is the Vec    *)
(* that new_nodes.nodes_by_rank(rank) returns, in the iteration order of   *)
(* the HashMap, which the caller of this operator chooses.  The unwraps on *)
(* the names of a matched node hold in this model, where every node that   *)
(* the table names has names.                                              *)
(***************************************************************************)
\* The ranks walked: RANKS[0..4] reversed
LOOKUP_RANKS == <<RANKS[4], RANKS[3], RANKS[2], RANKS[1]>>

\* The key of a node name under the name of one of its ancestors
rank_letter_key(node, name, n, n_name) ==
    rank_letter(node) \o ":" \o name \o ":" \o rank_letter(n) \o ":" \o n_name

\* for n_name in n_names.iter() {..}: the first n_name whose key has one
\* entry in the table sets the match and leaves the loop
lookup_n_names(node, name, n, n_names, table, m) ==
    LET hit == FirstIndex(n_names,
                   LAMBDA n_name :
                       LET key == rank_letter_key(node, name, n, n_name) IN
                       key \in DOMAIN table /\ Len(table[key]) = 1)
    IN IF n.rank \in higher_rank_set /\ hit > 0
       THEN LET value == table[rank_letter_key(node, name, n, n_names[hit])] IN
            [matched |-> Insert(m.matched, node.tax_id, value[1]),
             match_tax_id |-> Some(value[1])]
       ELSE m

\* for name in names.iter() {..}: left as soon as match_tax_id is set
RECURSIVE lookup_names(_, _, _, _, _, _)
lookup_names(node, names, n, n_names, table, m) ==
    IF Len(names) = 0 THEN m
    ELSE LET after == lookup_n_names(node, Head(names), n, n_names, table, m) IN
         IF after.match_tax_id # None THEN after
         ELSE lookup_names(node, Tail(names), n, n_names, table, after)

\* for n in lineage.into_iter().rev() {..}
RECURSIVE lookup_lineage(_, _, _, _, _, _, _)
lookup_lineage(node, names, lin, new_name_classes, table, m, hanger_tax_id) ==
    IF Len(lin) = 0
    THEN [matched |-> m.matched, match_tax_id |-> m.match_tax_id,
          hanger_tax_id |-> hanger_tax_id]
    ELSE LET n == Head(lin)
             hanger == IF n.tax_id \in DOMAIN m.matched /\ hanger_tax_id = None
                       THEN Some(m.matched[n.tax_id])
                       ELSE hanger_tax_id
         IN lookup_lineage(node, names, Tail(lin), new_name_classes, table,
                           lookup_names(node, names, n,
                                        names_by_class(n, new_name_classes), table, m),
                           hanger)

\* "add node.tax_id to names as an xref"
lookup_xref(nodes, ref_tax_id, node, xref_label) ==
    [nodes EXCEPT !.nodes[ref_tax_id] =
        PushName(@, [tax_id |-> ref_tax_id,
                     name |-> node.tax_id,
                     unique_name |-> (IF xref_label # None THEN xref_label[1] ELSE "")
                                     \o ":" \o node.tax_id,
                     class |-> xref_label])]

\* "Create new node and hang on hanger_tax_id"
lookup_graft(st, hanger_id, node, xref_label) ==
    LET new_tax_id == (IF xref_label # None THEN xref_label[1] ELSE "")
                      \o ":" \o node.tax_id
        new_node == [tax_id |-> new_tax_id,
                     parent_tax_id |-> hanger_id,
                     names |-> [k \in 1..Len(node.names) |->
                                   [node.names[k] EXCEPT !.tax_id = new_tax_id]],
                     rank |-> node.rank,
                     scientific_name |-> node.scientific_name]
        parent_node == st.nodes.nodes[hanger_id]
        key == rank_letter(node) \o ":" \o lc_scientific_name(node) \o ":"
               \o rank_letter(parent_node) \o ":" \o lc_scientific_name(parent_node)
    IN [nodes |-> [nodes |-> Insert(st.nodes.nodes, new_tax_id, new_node),
                   children |-> PushChild(st.nodes.children, hanger_id, new_tax_id)],
        matched |-> Insert(st.matched, node.tax_id, new_tax_id),
        table |-> IF key \in DOMAIN st.table
                  THEN [st.table EXCEPT ![key] = Append(@, new_tax_id)]
                  ELSE st.table @@ (key :> <<new_tax_id>>)]

\* for node in new_nodes.nodes_by_rank(rank) {..}: left by the break that
\* follows the first match
RECURSIVE lookup_rank(_, _, _, _, _, _, _)
lookup_rank(new_nodes, rank_nodes, st, new_name_classes, name_classes, xref_label, create_taxa) ==
    IF Len(rank_nodes) = 0 THEN st
    ELSE
    LET node == Head(rank_nodes)
        r == lookup_lineage(node, names_by_class(node, name_classes),
                            Reverse(lineage(new_nodes.nodes, ROOT_ID, node.tax_id)),
                            new_name_classes, st.table,
                            [matched |-> st.matched, match_tax_id |-> None], None)
        seen == [st EXCEPT !.matched = r.matched]
    IN IF r.match_tax_id # None
       THEN [seen EXCEPT !.nodes = lookup_xref(@, r.match_tax_id[1], node, xref_label)]
       ELSE lookup_rank(new_nodes, Tail(rank_nodes),
                        IF create_taxa /\ r.hanger_tax_id # None
                        THEN lookup_graft(seen, r.hanger_tax_id[1], node, xref_label)
                        ELSE seen,
                        new_name_classes, name_classes, xref_label, create_taxa)

\* for rank in ranks.into_iter().rev() {..}
RECURSIVE lookup_ranks(_, _, _, _, _, _, _, _)
lookup_ranks(new_nodes, by_rank, ranks, st, new_name_classes, name_classes, xref_label, create_taxa) ==
    IF Len(ranks) = 0 THEN st
    ELSE lookup_ranks(new_nodes, by_rank, Tail(ranks),
                      lookup_rank(new_nodes, by_rank[Head(ranks)], st, new_name_classes,
                                  name_classes, xref_label, create_taxa),
                      new_name_classes, name_classes, xref_label, create_taxa)

\* Nodes::nodes_by_rank(rank): the nodes of the rank in each order
nodes_by_rank(self, rank) ==
    LET ids == {t \in DOMAIN self.nodes : self.nodes[t].rank = rank} IN
    {[k \in 1..Len(o) |-> self.nodes[o[k]]] : o \in Orders(ids)}

\* The reference tree after the call
lookup_nodes(new_nodes, nodes, new_name_classes, name_classes, xref_label, create_taxa, by_rank) ==
    lookup_ranks(new_nodes, by_rank, LOOKUP_RANKS,
                 [nodes |-> nodes,
                  table |-> build_lookup(nodes, name_classes, TRUE),
                  matched |-> EmptyMap],
                 new_name_classes, name_classes, xref_label, create_taxa).nodes

(***************************************************************************)
(* parse_ena_jsonl(jsonl, Some(existing)).  A line of the feed is          *)
(* [tax_id, scientific_name, rank, lineage], lineage being the text that   *)
(* lineage_deserialize splits.                                             *)
(***************************************************************************)
RECURSIVE split(_, _)
split(s, sep) ==
    LET i == FindFrom(s, sep, 1) IN
    IF i = 0 THEN <<s>>
    ELSE <<SubSeq(s, 1, i - 1)>> \o split(SubSeq(s, i + Len(sep), Len(s)), sep)

RECURSIVE trim_start(_)
trim_start(s) == IF Len(s) > 0 /\ Head(s) = " " THEN trim_start(Tail(s)) ELSE s
RECURSIVE trim_end(_)
trim_end(s) == IF Len(s) > 0 /\ CharAt(s, Len(s)) = " "
               THEN trim_end(SubSeq(s, 1, Len(s) - 1)) ELSE s
trim(s) == trim_end(trim_start(s))

lineage_deserialize(str_sequence) ==
    LET items == split(str_sequence, ";") IN [i \in 1..Len(items) |-> trim(items[i])]

\* The windows(2) loop over the reversed lineage, from window i on
RECURSIVE ena_windows(_, _, _, _, _)
ena_windows(taxon, names, i, table, existing) ==
    IF i + 1 > Len(names) THEN existing
    ELSE LET key == to_case_lower(names[i]) \o ":" \o to_case_lower(names[i + 1]) IN
         IF key \in DOMAIN table /\ Len(table[key]) = 1
         THEN LET parent_tax_id == table[key][1]
                  node == [tax_id |-> taxon.tax_id,
                           parent_tax_id |-> parent_tax_id,
                           rank |-> taxon.rank,
                           scientific_name |-> Some(taxon.scientific_name),
                           names |-> <<[Name_default EXCEPT
                                          !.tax_id = taxon.tax_id,
                                          !.name = taxon.scientific_name,
                                          !.class = Some(SCIENTIFIC_NAME)]>>]
              IN [nodes |-> Insert(existing.nodes, taxon.tax_id, node),
                  children |-> PushChild(existing.children, parent_tax_id, taxon.tax_id)]
         ELSE ena_windows(taxon, names, i + 1, table, existing)

RECURSIVE ena_lines(_, _, _)
ena_lines(lines, table, existing) ==
    IF Len(lines) = 0 THEN existing
    ELSE ena_lines(Tail(lines), table,
                   ena_windows(Head(lines),
                               Reverse(lineage_deserialize(Head(lines).lineage)),
                               1, table, existing))

\* The existing tree after the call (the Nodes returned is empty)
parse_ena_jsonl(jsonl, existing) ==
    ena_lines(jsonl, build_lookup(existing, {SCIENTIFIC_NAME}, FALSE), existing)

(***************************************************************************)
(* build_fast_lookup(nodes, name_classes) -> TreeMap<CString,              *)
(* Vec<TaxonInfo>>.  The Vec under a name is in push order, which follows  *)
(* the iteration order of nodes.nodes; one order stands for all.           *)
(***************************************************************************)
fast_lookup_entries(nodes, tax_id, name_classes) ==
    LET node == nodes[tax_id] IN
    IF node.rank \notin rank_set THEN <<>>
    ELSE
    LET lin == lineage(nodes, ROOT_ID, tax_id)
        names == names_by_class(node, name_classes)
        anc_ids == {lin[j].tax_id : j \in {k \in 1..Len(lin) : lin[k].rank \in higher_rank_set}}
    IN [k \in 1..Len(names) |->
           [key |-> names[k],
            info |-> [tax_id |-> tax_id,
                      name |-> scientific_name(node),
                      rank |-> node.rank,
                      anc_ids |-> anc_ids]]]

build_fast_lookup(nodes, name_classes) ==
    LET ids == SetToSeq(DOMAIN nodes.nodes)
        entries == Concat([i \in 1..Len(ids) |->
                       fast_lookup_entries(nodes.nodes, ids[i], name_classes)])
    IN [k \in {entries[i].key : i \in 1..Len(entries)} |->
           LET hits == SelectSeq(entries, LAMBDA e : e.key = k)
           IN [i \in 1..Len(hits) |-> hits[i].info]]

(***************************************************************************)
(* id_map.fuzzy(key, max_edit_dist): the entries whose key is within the   *)
(* Levenshtein distance of the query, computed row by row.                 *)
(***************************************************************************)
Min2(a, b) == IF a <= b THEN a ELSE b

\* Row i of the distance table from row i - 1 (prev); row holds the cells
\* 0..Len(row) - 1 computed so far, c is a[i].
RECURSIVE lev_row(_, _, _, _)
lev_row(prev, c, b, row) ==
    IF Len(row) = Len(b) + 1 THEN row
    ELSE LET j == Len(row) IN
         lev_row(prev, c, b,
                 Append(row, Min2(Min2(prev[j + 1] + 1, row[j] + 1),
                                  prev[j] + (IF CharAt(b, j) = c THEN 0 ELSE 1))))

RECURSIVE lev_rows(_, _, _, _)
lev_rows(a, b, i, prev) ==
    IF i > Len(a) THEN prev[Len(b) + 1]
    ELSE lev_rows(a, b, i + 1, lev_row(prev, CharAt(a, i), b, <<i>>))

levenshtein(a, b) == lev_rows(a, b, 1, [j \in 1..(Len(b) + 1) |-> j - 1])

MAX_EDIT_DIST == 2

\* The Vec<(key, Vec<TaxonInfo>)> that .collect() gathers
fuzzy(id_map, key, max_edit_dist) ==
    LET keys == SetToSeq({k \in DOMAIN id_map : levenshtein(k, key) <= max_edit_dist})
    IN [i \in 1..Len(keys) |-> id_map[keys[i]]]

(***************************************************************************)
(* Candidate, MatchStatus, TaxonMatch.  A MatchStatus is its variant and   *)
(* the candidates it carries (one for Match, MergeMatch, PutativeMatch).   *)
(***************************************************************************)
Candidate_default == [name |-> "", tax_id |-> None, rank |-> "", anc_ids |-> None]

\* Candidate { tax_id: Some(id.tax_id), rank: id.rank, name: id.name,
\*             anc_ids: Some(id.anc_ids) }
CandidateOf(id) ==
    [name |-> id.name, tax_id |-> Some(id.tax_id), rank |-> id.rank,
     anc_ids |-> Some(id.anc_ids)]

Match(taxon) == [kind |-> "Match", taxa |-> <<taxon>>]
MergeMatch(taxon) == [kind |-> "MergeMatch", taxa |-> <<taxon>>]
Mismatch(taxa) == [kind |-> "Mismatch", taxa |-> taxa]
MultiMatch(taxa) == [kind |-> "MultiMatch", taxa |-> taxa]
PutativeMatch(taxon) == [kind |-> "PutativeMatch", taxa |-> <<taxon>>]

TaxonMatch_default ==
    [taxon |-> Candidate_default, taxon_id |-> None,
     rank_status |-> None, rank_options |-> None,
     higher_status |-> None, higher_options |-> None]

\* The number of elements of a Vec that pass a test
Count(seq, Test(_)) == Cardinality({i \in 1..Len(seq) : Test(seq[i])})

check_higher_taxon(taxon, higher_taxon) ==
    higher_taxon.tax_id[1] \in taxon.anc_ids[1]

\* check_higher_rank with a PutativeMatch at the higher rank trusted as a
\* Match is, without looking at the lineage of the taxon
check_higher_rank_trusting(taxon, taxon_match) ==
    LET hs == taxon_match.higher_status IN
    IF hs # None /\ hs[1].kind \in {"Match", "MergeMatch", "PutativeMatch"} THEN TRUE
    ELSE IF hs # None /\ hs[1].kind = "Mismatch" THEN FALSE
    ELSE IF hs # None /\ hs[1].kind = "MultiMatch"
    THEN Count(hs[1].taxa, LAMBDA h : check_higher_taxon(taxon, h)) = 1
    ELSE IF taxon_match.higher_options # None
    THEN Count(taxon_match.higher_options[1],
               LAMBDA h : check_higher_taxon(taxon, h)) = 1
    ELSE FALSE

check_higher_rank(taxon, taxon_match) ==
    LET hs == taxon_match.higher_status IN
    IF hs # None /\ hs[1].kind \in {"Match", "MergeMatch"} THEN TRUE
    ELSE IF hs # None /\ hs[1].kind = "Mismatch" THEN FALSE
    ELSE IF hs # None /\ hs[1].kind = "MultiMatch"
    THEN Count(hs[1].taxa, LAMBDA h : check_higher_taxon(taxon, h)) = 1
    ELSE IF hs # None /\ hs[1].kind = "PutativeMatch"
    THEN check_higher_taxon(taxon, hs[1].taxa[1])
    ELSE IF taxon_match.higher_options # None
    THEN Count(taxon_match.higher_options[1],
               LAMBDA h : check_higher_taxon(taxon, h)) = 1
    ELSE FALSE

(***************************************************************************)
(* match_taxonomy_section(taxonomy_section, id_map)                        *)
(*   -> (Option<Candidate>, TaxonMatch)                                    *)
(***************************************************************************)
\* "Clean name": alphanumerics lowercased, every other char a space
RECURSIVE clean_name(_)
clean_name(name) ==
    IF Len(name) = 0 THEN ""
    ELSE (IF is_alphanumeric(Head(name)) THEN to_ascii_lowercase(Head(name)) ELSE " ")
         \o clean_name(Tail(name))

\* "Set ranks to check"
ranks_to_check(taxonomy_section) ==
    (IF "taxon" \in DOMAIN taxonomy_section THEN <<"taxon">> ELSE <<>>)
    \o SelectSeq(RANKS, LAMBDA rank : rank \in DOMAIN taxonomy_section)

\* lower_ranks without genus: RANKS[0..2]
lower_ranks_below_genus == {RANKS[1], RANKS[2]}

\* RANKS[0..3]
lower_ranks == {RANKS[1], RANKS[2], RANKS[3]}

\* ids.len() > 1 at the rank of the record (i == 0)
match_multiple_same_rank(id_map, taxon, taxon_match, candidates) ==
    IF taxon_match.taxon.tax_id # None
    THEN LET tax_id == taxon_match.taxon.tax_id[1]
             k == FirstIndex(candidates, LAMBDA c : tax_id = c.tax_id[1])
         IN
         IF k > 0
         THEN [taxon_match EXCEPT !.rank_status = Some(Match(taxon)),
                                  !.taxon_id = Some(candidates[k].tax_id[1])]
         ELSE IF tax_id \in DOMAIN id_map
         THEN LET matches == id_map[tax_id]
                  m == IF Len(matches) = 1
                       THEN FirstIndex(candidates,
                                LAMBDA c : matches[1].tax_id = c.tax_id[1])
                       ELSE 0
                  merged == IF m > 0
                            THEN [taxon_match EXCEPT
                                    !.rank_status = Some(MergeMatch(candidates[m])),
                                    !.taxon_id = Some(candidates[m].tax_id[1])]
                            ELSE taxon_match
              IN \* the assignment after the `if matches.len() == 1` block
                 [merged EXCEPT !.rank_status = Some(Mismatch(candidates))]
         ELSE [taxon_match EXCEPT !.rank_status = Some(Mismatch(candidates))]
    ELSE [taxon_match EXCEPT !.rank_status = Some(MultiMatch(candidates))]

\* match_single_same_rank without the comparison of the supplied id
match_single_same_rank_any_id(id_map, taxon_id, taxon, taxon_match, ids) ==
    [tm |-> [taxon_match EXCEPT
                !.rank_status = Some(PutativeMatch(CandidateOf(ids)))],
     brk |-> FALSE]

\* ids.len() == 1 at the rank of the record (i == 0)
match_single_same_rank(id_map, taxon_id, taxon, taxon_match, ids) ==
    IF taxon_id # None
    THEN LET tax_id == taxon_id[1] IN
         IF tax_id = ids.tax_id
         THEN [tm |-> [taxon_match EXCEPT !.rank_status = Some(Match(taxon)),
                                          !.taxon_id = Some(ids.tax_id)],
               brk |-> TRUE]
         ELSE IF /\ tax_id \in DOMAIN id_map
                 /\ Len(id_map[tax_id]) = 1
                 /\ id_map[tax_id][1].tax_id = ids.tax_id
         THEN [tm |-> [taxon_match EXCEPT
                          !.taxon_id = Some(id_map[tax_id][1].tax_id),
                          !.rank_status = Some(MergeMatch(CandidateOf(ids)))],
               brk |-> FALSE]
         ELSE [tm |-> [taxon_match EXCEPT
                          !.rank_status =
                              Some(Mismatch(<<[taxon EXCEPT !.tax_id = Some(ids.tax_id)]>>))],
               brk |-> FALSE]
    ELSE [tm |-> [taxon_match EXCEPT
                     !.rank_status = Some(PutativeMatch(CandidateOf(ids)))],
          brk |-> FALSE]

\* match_fuzzy with the candidates of the record's rank taken for a match
match_fuzzy_accepting(id_map, name, i, taxon_match) ==
    LET fz == fuzzy(id_map, name, MAX_EDIT_DIST)
        candidates ==
            Concat([k \in 1..Len(fz) |->
                Concat([j \in 1..Len(fz[k]) |->
                    IF i > 0 \/ fz[k][j].rank = taxon_match.taxon.rank
                    THEN <<CandidateOf(fz[k][j])>> ELSE <<>>])])
    IN IF Len(fz) > 0 /\ Len(candidates) > 0
       THEN (IF i = 0
             THEN [taxon_match EXCEPT !.rank_status = Some(MultiMatch(candidates))]
             ELSE [taxon_match EXCEPT !.higher_options = Some(candidates)])
       ELSE taxon_match

\* "Look for fuzzy matches"
match_fuzzy(id_map, name, i, taxon_match) ==
    LET fz == fuzzy(id_map, name, MAX_EDIT_DIST)
        candidates ==
            Concat([k \in 1..Len(fz) |->
                Concat([j \in 1..Len(fz[k]) |->
                    IF i > 0 \/ fz[k][j].rank = taxon_match.taxon.rank
                    THEN <<CandidateOf(fz[k][j])>> ELSE <<>>])])
    IN IF Len(fz) > 0 /\ Len(candidates) > 0
       THEN (IF i = 0
             THEN [taxon_match EXCEPT !.rank_options = Some(candidates)]
             ELSE [taxon_match EXCEPT !.higher_options = Some(candidates)])
       ELSE taxon_match

\* One pass of "Iterate over ranks" that reaches the index: the TaxonMatch
\* after it, and whether it left the loop with break
match_name(id_map, taxon_id, taxon, name, i, taxon_match) ==
    IF name \in DOMAIN id_map
    THEN LET ids == id_map[name] IN
         IF Len(ids) > 1
         THEN LET candidates == [k \in 1..Len(ids) |-> CandidateOf(ids[k])] IN
              [tm |-> IF i = 0
                      THEN match_multiple_same_rank(id_map, taxon, taxon_match, candidates)
                      ELSE [taxon_match EXCEPT
                               !.higher_status = Some(MultiMatch(candidates))],
               brk |-> FALSE]
         ELSE IF i = 0
              THEN match_single_same_rank(id_map, taxon_id, taxon, taxon_match, ids[1])
              ELSE [tm |-> [taxon_match EXCEPT
                               !.higher_status = Some(PutativeMatch(CandidateOf(ids[1])))],
                    brk |-> TRUE]
    ELSE [tm |-> match_fuzzy(id_map, name, i, taxon_match), brk |-> FALSE]

\* "Iterate over ranks", from pass i (counted from 0) on
RECURSIVE match_ranks(_, _, _, _, _, _)
match_ranks(taxonomy_section, id_map, taxon_id, ranks, i, taxon_match) ==
    IF i >= Len(ranks) THEN taxon_match
    ELSE LET rank == ranks[i + 1]
             taxon == [name |-> taxonomy_section[rank], tax_id |-> taxon_id,
                       rank |-> rank, anc_ids |-> None]
             first == IF i = 0
                      THEN [TaxonMatch_default EXCEPT !.taxon = taxon]
                      ELSE taxon_match
         IN IF i > 0 /\ rank \in lower_ranks
            THEN match_ranks(taxonomy_section, id_map, taxon_id, ranks, i + 1, first)
            ELSE LET pass == match_name(id_map, taxon_id, taxon,
                                        clean_name(taxonomy_section[rank]), i, first)
                 IN IF pass.brk THEN pass.tm
                    ELSE match_ranks(taxonomy_section, id_map, taxon_id, ranks,
                                     i + 1, pass.tm)

\* The match on taxon_match.rank_status that sets assigned_taxon
assigned_taxon(taxon_match) ==
    LET rs == taxon_match.rank_status IN
    IF rs = None THEN None
    ELSE IF rs[1].kind \in {"Match", "MergeMatch"} THEN Some(rs[1].taxa[1])
    ELSE IF rs[1].kind = "Mismatch" THEN None
    ELSE IF rs[1].kind = "MultiMatch"
    THEN LET candidates == SelectSeq(rs[1].taxa,
                               LAMBDA taxon : check_higher_rank(taxon, taxon_match))
         IN IF Len(candidates) = 1 THEN Some(candidates[1]) ELSE None
    ELSE IF check_higher_rank(rs[1].taxa[1], taxon_match)
    THEN Some(rs[1].taxa[1])
    ELSE None

\* "Check if taxon_id is present": the id the rest of the function uses
present_taxon_id(taxonomy_section) ==
    IF "taxon_id" \in DOMAIN taxonomy_section /\ taxonomy_section["taxon_id"] # "None"
    THEN Some(taxonomy_section["taxon_id"])
    ELSE None

\* The early return: the id is a key of the index with one entry
direct_id_lookup(taxonomy_section, id_map) ==
    LET taxon_id == present_taxon_id(taxonomy_section) IN
    IF taxon_id # None /\ taxon_id[1] \in DOMAIN id_map /\ Len(id_map[taxon_id[1]]) = 1
    THEN Some(id_map[taxon_id[1]][1])
    ELSE None

match_taxonomy_section(taxonomy_section, id_map) ==
    LET direct == direct_id_lookup(taxonomy_section, id_map) IN
    IF direct # None
    THEN LET taxon == CandidateOf(direct[1]) IN
         [assigned_taxon |-> Some(taxon),
          taxon_match |-> [TaxonMatch_default EXCEPT
                              !.taxon = taxon,
                              !.taxon_id = Some(direct[1].tax_id),
                              !.rank_status = Some(Match(taxon))]]
    ELSE LET taxon_match == match_ranks(taxonomy_section, id_map,
                                        present_taxon_id(taxonomy_section),
                                        ranks_to_check(taxonomy_section), 0,
                                        TaxonMatch_default)
         IN [assigned_taxon |-> assigned_taxon(taxon_match),
             taxon_match |-> taxon_match]

(***************************************************************************)
(* The ingest pipeline: validation of the values of a row.  A number is    *)
(* held in hundredths (1.5 is 150); the raw values of the model have at    *)
(* most two decimals and four digits, and none is written with an          *)
(* exponent or as inf / NaN, which str::parse::<f64> also reads.           *)
(***************************************************************************)
DigitVal(c) == (CHOOSE i \in 1..Len(DigitChars) : CharAt(DigitChars, i) = c) - 1

all_digits(s) == Len(s) > 0 /\ \A i \in 1..Len(s) : IsDigit(CharAt(s, i))

RECURSIVE digits_value(_, _)
digits_value(s, acc) ==
    IF Len(s) = 0 THEN acc
    ELSE digits_value(SubSeq(s, 2, Len(s)), acc * 10 + DigitVal(CharAt(s, 1)))

HasSign(s) == Len(s) > 0 /\ CharAt(s, 1) \in {"-", "+"}

Unsigned(s) == IF HasSign(s) THEN SubSeq(s, 2, Len(s)) ELSE s

Signed(s, v) == IF Len(s) > 0 /\ CharAt(s, 1) = "-" THEN 0 - v ELSE v

\* value[..dot_pos] with dot_pos = value.find(".").unwrap_or(value.len())
before_dot(value) ==
    LET dot_pos == FindFrom(value, ".", 1) IN
    IF dot_pos = 0 THEN value ELSE SubSeq(value, 1, dot_pos - 1)

\* str::parse::<iN>() for the integer type with values lo..hi: Err
\* (ok = FALSE) on text that is no integer and on a value out of range
parse_int(s, lo, hi) ==
    LET body == Unsigned(s)
        v == Signed(s, digits_value(body, 0))
    IN IF all_digits(body) /\ v >= lo /\ v <= hi
       THEN [ok |-> TRUE, v |-> v * 100]
       ELSE [ok |-> FALSE, v |-> 0]

\* The hundredths of a fraction written with the digits fp
fraction(fp) ==
    IF Len(fp) = 0 THEN 0
    ELSE IF Len(fp) = 1 THEN DigitVal(CharAt(fp, 1)) * 10
    ELSE digits_value(SubSeq(fp, 1, 2), 0)

\* str::parse::<f64>() / parse::<f32>() on decimal text
parse_float(s) ==
    LET body == Unsigned(s)
        dot_pos == FindFrom(body, ".", 1)
        ip == IF dot_pos = 0 THEN body ELSE SubSeq(body, 1, dot_pos - 1)
        fp == IF dot_pos = 0 THEN "" ELSE SubSeq(body, dot_pos + 1, Len(body))
        ok == /\ Len(ip) + Len(fp) > 0
              /\ Len(ip) = 0 \/ all_digits(ip)
              /\ Len(fp) = 0 \/ all_digits(fp)
    IN IF ok
       THEN [ok |-> TRUE, v |-> Signed(s, digits_value(ip, 0) * 100 + fraction(fp))]
       ELSE [ok |-> FALSE, v |-> 0]

\* ConstraintConfig { min, max, .. }: min and max are whole numbers here
ConstraintConfig_default == [min |-> None, max |-> None]

check_bounds(val, constraint) ==
    IF constraint.min # None /\ val < constraint.min[1] * 100 THEN FALSE
    ELSE IF constraint.max # None /\ val > constraint.max[1] * 100 THEN FALSE
    ELSE TRUE

\* Result<bool, Error> as [ok, valid]: ok = FALSE is Err
validate_double(value, constraint) ==
    LET v == parse_float(value) IN
    [ok |-> v.ok, valid |-> v.ok /\ check_bounds(v.v, constraint)]

\* The ranges of i8 and i16; the raw values of the model are far inside
\* those of i32 and i64
IntRange(field_type) ==
    CASE field_type = "byte" -> [lo |-> -128, hi |-> 127]
      [] field_type = "short" -> [lo |-> -32768, hi |-> 32767]
      [] OTHER -> [lo |-> -1000000, hi |-> 1000000]

FieldTypes ==
    {"byte", "date", "double", "float", "geo_point", "half_float", "keyword",
     "integer", "long", "short", "1dp", "2dp", "3dp", "4dp"}

apply_validation(value, field) ==
    LET constraint == IF field.constraint # None THEN field.constraint[1]
                      ELSE ConstraintConfig_default
        field_type == field.field_type
    IN IF field_type \in {"byte", "integer", "short"}
       THEN LET v == parse_int(before_dot(value), IntRange(field_type).lo,
                               IntRange(field_type).hi)
            IN [ok |-> v.ok, valid |-> v.ok /\ check_bounds(v.v, constraint)]
       ELSE IF field_type = "long"
       THEN LET v == parse_int(before_dot(value), IntRange(field_type).lo,
                               IntRange(field_type).hi)
            IN IF v.ok THEN validate_double(value, constraint)
               ELSE [ok |-> FALSE, valid |-> FALSE]
       ELSE IF field_type \in {"double", "float", "half_float"}
       THEN validate_double(value, constraint)
       ELSE [ok |-> TRUE, valid |-> TRUE]

\* format!("{}", value) of a number held in hundredths
fmt_number(v) ==
    LET a == IF v < 0 THEN 0 - v ELSE v
        whole == ToString(a \div 100)
        frac == a % 100
        digits == IF frac = 0 THEN ""
                  ELSE IF frac % 10 = 0 THEN "." \o ToString(frac \div 10)
                  ELSE IF frac < 10 THEN ".0" \o ToString(frac)
                  ELSE "." \o ToString(frac)
    IN (IF v < 0 THEN "-" ELSE "") \o whole \o digits

\* String::replace("{}", val)
RECURSIVE replace(_, _, _)
replace(s, pat, val) ==
    LET p == FindFrom(s, pat, 1) IN
    IF p = 0 THEN s
    ELSE SubSeq(s, 1, p - 1) \o val
         \o replace(SubSeq(s, p + Len(pat), Len(s)), pat, val)

\* cpc::eval(equation, ..) on an equation "<number> * <number>", the only
\* form the functions of the model give: Err (ok = FALSE) when a side is
\* no number.
eval(equation) ==
    LET p == FindFrom(equation, " * ", 1)
        lhs == IF p = 0 THEN [ok |-> FALSE, v |-> 0]
               ELSE parse_float(SubSeq(equation, 1, p - 1))
        rhs == IF p = 0 THEN [ok |-> FALSE, v |-> 0]
               ELSE parse_float(SubSeq(equation, p + 3, Len(equation)))
    IN IF lhs.ok /\ rhs.ok
       THEN [ok |-> TRUE, v |-> (lhs.v * rhs.v) \div 100]
       ELSE [ok |-> FALSE, v |-> 0]

\* apply_function(value, field) -> String.  status "panic" is the unwrap
\* of an Err of eval.
apply_function(value, field) ==
    IF value = "" \/ value = "None" \/ value = "NA"
    THEN [status |-> "ok", value |-> "None"]
    ELSE LET evaluated ==
                 IF field.function # None
                 THEN eval(replace(field.function[1], "{}", value))
                 ELSE [ok |-> TRUE, v |-> 0]
             val == IF field.function # None THEN fmt_number(evaluated.v) ELSE value
         IN IF ~evaluated.ok THEN [status |-> "panic", value |-> value]
            ELSE LET is_valid == apply_validation(val, field) IN
                 [status |-> "ok",
                  value |-> IF is_valid.ok /\ is_valid.valid THEN val ELSE "None"]

(***************************************************************************)
(* The ingest pipeline: GHubsConfig and the rows of a data file.  A        *)
(* StringOrVec / UsizeOrVec is the Vec of its items, Single being a Vec of *)
(* one: header Some(<<"a", "b">>) is Multiple(["a", "b"]).  Columns are    *)
(* counted from 1.  separator is one literal string.                       *)
(***************************************************************************)
GHubsFieldConfig_default ==
    [bins |-> None, constraint |-> None, default |-> None, description |-> None,
     display |-> None, function |-> None, header |-> None, index |-> None,
     join |-> None, key |-> None, name |-> None, separator |-> None,
     status |-> None, summary |-> None, synonyms |-> None, translate |-> None,
     field_type |-> "keyword", units |-> None]

GHubsConfig_default ==
    [file |-> None, attributes |-> None, taxon_names |-> None, taxonomy |-> None]

\* key_index(headers, key).unwrap(): the headers of the model hold every
\* key the configs name
key_index(headers, key) == CHOOSE i \in 1..Len(headers) : 
    headers[i] = key /\ \A j \in 1..(i - 1) : headers[j] # key

\* update_config(key, ghubs_config, headers) on the fields of one group
update_config(fields, headers) ==
    [f \in DOMAIN fields |->
        IF fields[f].header # None
        THEN [fields[f] EXCEPT !.index =
                 Some([k \in 1..Len(fields[f].header[1]) |->
                          key_index(headers, fields[f].header[1][k])])]
        ELSE fields[f]]

translate_value(field, value) ==
    IF field.translate # None /\ value \in DOMAIN field.translate[1]
    THEN field.translate[1][value]
    ELSE <<value>>

\* process_value(value, field): the values after translate, separator and
\* apply_function, and whether apply_function panicked on one
process_value(value, field) ==
    LET values == translate_value(field, value)
        pieces == Concat([k \in 1..Len(values) |->
                     IF field.separator # None
                     THEN split(values[k], field.separator[1])
                     ELSE <<values[k]>>])
        applied == [k \in 1..Len(pieces) |-> apply_function(pieces[k], field)]
    IN [status |-> IF \E k \in 1..Len(applied) : applied[k].status = "panic"
                   THEN "panic" ELSE "ok",
        values |-> [k \in 1..Len(applied) |-> applied[k].value]]

\* validate_values(key, ghubs_config, record) on the fields of one group
validate_values(fields, record) ==
    LET indexed == {f \in DOMAIN fields : fields[f].index # None}
        string_value(f) ==
            JoinStr([k \in 1..Len(fields[f].index[1]) |-> record[fields[f].index[1][k]]],
                    IF fields[f].join # None THEN fields[f].join[1] ELSE "")
        done == [f \in indexed |-> process_value(string_value(f), fields[f])]
    IN [status |-> IF \E f \in indexed : done[f].status = "panic" THEN "panic" ELSE "ok",
        validated |-> [f \in indexed |-> JoinStr(done[f].values, ";")]]

\* add_new_names(taxon, taxon_names, names, id_map).  taxon_names is
\* iterated in HashMap order; the order of the names pushed follows it.
RECURSIVE add_new_names_loop(_, _, _, _, _)
add_new_names_loop(tax_id, taxon_names, classes, names, id_map) ==
    IF Len(classes) = 0 THEN names
    ELSE LET name_class == Head(classes)
             name == taxon_names[name_class]
             found == /\ name \in DOMAIN id_map
                      /\ \E k \in 1..Len(id_map[name]) : id_map[name][k].tax_id = tax_id
             taxon_name == [Name_default EXCEPT !.tax_id = tax_id, !.name = name,
                                                !.class = Some(name_class)]
             pushed == IF tax_id \in DOMAIN names
                       THEN [names EXCEPT ![tax_id] = Append(@, taxon_name)]
                       ELSE names @@ (tax_id :> <<taxon_name>>)
         IN add_new_names_loop(tax_id, taxon_names, Tail(classes),
                               IF name = "None" \/ name = "NA" \/ found
                               THEN names ELSE pushed,
                               id_map)

add_new_names(taxon, taxon_names, names, id_map) ==
    IF taxon.tax_id = None THEN names
    ELSE add_new_names_loop(taxon.tax_id[1], taxon_names,
                            SetToSeq(DOMAIN taxon_names), names, id_map)

\* add_new_taxid giving the new node the rank of the taxon it hangs on
add_new_taxid_hanger_rank(taxon, taxonomy_section, id_map) ==
    IF "alt_taxon_id" \notin DOMAIN taxonomy_section THEN None
    ELSE IF taxon.higher_status # None /\ taxon.higher_status[1].kind = "PutativeMatch"
    THEN Some([tax_id |-> taxonomy_section["alt_taxon_id"],
               parent_tax_id |-> taxon.higher_status[1].taxa[1].tax_id[1],
               rank |-> taxon.higher_status[1].taxa[1].rank,
               scientific_name |-> Some(taxon.taxon.name),
               names |-> None])
    ELSE None

\* add_new_taxid(taxon, taxonomy_section, id_map) -> Option<Node>
add_new_taxid(taxon, taxonomy_section, id_map) ==
    IF "alt_taxon_id" \notin DOMAIN taxonomy_section THEN None
    ELSE LET alt_id == taxonomy_section["alt_taxon_id"] IN
         IF alt_id = "None" /\ alt_id = "NA" THEN None
         ELSE IF taxon.higher_status # None /\ taxon.higher_status[1].kind = "PutativeMatch"
         THEN Some([tax_id |-> alt_id,
                    parent_tax_id |-> taxon.higher_status[1].taxa[1].tax_id[1],
                    rank |-> taxon.taxon.rank,
                    scientific_name |-> Some(taxon.taxon.name),
                    names |-> None])
         ELSE None

\* The index with the nodes created by the passes before added under
\* their names, as a rebuilt index would hold them
index_with_grafts(id_map, nodes) ==
    LET created == {t \in DOMAIN nodes : lc_scientific_name(nodes[t]) \notin DOMAIN id_map}
    IN [k \in DOMAIN id_map \cup {lc_scientific_name(nodes[t]) : t \in created} |->
           IF k \in DOMAIN id_map THEN id_map[k]
           ELSE LET t == CHOOSE t \in created : lc_scientific_name(nodes[t]) = k
                IN <<[tax_id |-> t, name |-> scientific_name(nodes[t]),
                      rank |-> nodes[t].rank,
                      anc_ids |-> {nodes[t].parent_tax_id}]>>]

\* A pass that resolves the row over the index and the nodes created by
\* the passes before it
nodes_from_file_row_indexing_grafts(ghubs_config, record, acc, id_map) ==
    LET keys == <<"attributes", "taxon_names", "taxonomy">>
        present == {k \in 1..Len(keys) : ghubs_config[keys[k]] # None}
    IN CHOOSE next \in
       {LET processed == [key \in {keys[k] : k \in present} |->
                             checked[CHOOSE k \in present : keys[k] = key].validated]
        IN IF \E k \in present : checked[k].status = "panic"
           THEN [acc EXCEPT !.status = "panic"]
           ELSE IF "taxonomy" \notin DOMAIN processed
           THEN [acc EXCEPT !.rows = Append(@, [processed |-> processed, resolved |-> FALSE])]
           ELSE
           CHOOSE matched \in
           {LET taxonomy_section == processed["taxonomy"]
                has_names == "taxon_names" \in DOMAIN processed
                taxon_match == r.taxon_match
                names1 == IF r.assigned_taxon # None /\ has_names
                          THEN add_new_names(r.assigned_taxon[1], processed["taxon_names"],
                                             acc.names, id_map)
                          ELSE acc.names
                unmatched == taxon_match.rank_status = None /\ taxon_match.rank_options = None
                node == IF unmatched THEN add_new_taxid(taxon_match, taxonomy_section, id_map)
                        ELSE None
                names2 == IF node # None /\ has_names
                          THEN add_new_names([Candidate_default EXCEPT
                                                 !.tax_id = Some(node[1].tax_id)],
                                             processed["taxon_names"], names1, id_map)
                          ELSE names1
            IN [status |-> "ok",
                names |-> names2,
                nodes |-> IF node # None THEN Insert(acc.nodes, node[1].tax_id, node[1])
                          ELSE acc.nodes,
                rows |-> Append(acc.rows,
                            [processed |-> processed, resolved |-> TRUE,
                             assigned_taxon |-> r.assigned_taxon,
                             taxon_match |-> taxon_match, node |-> node])]
            : r \in {match_taxonomy_section(processed["taxonomy"],
                                            index_with_grafts(id_map, acc.nodes))}} : TRUE
        : checked \in {[k \in present |-> validate_values(ghubs_config[keys[k]][1], record)]}}
       : TRUE

\* One pass of the loop over the records in nodes_from_file.  acc holds
\* names and nodes, and in `rows` what each pass did: the sections after
\* validation, what the resolver returned and the node created.
\* (A value bound over a one-element set is computed once.)
nodes_from_file_row(ghubs_config, record, acc, id_map) ==
    LET keys == <<"attributes", "taxon_names", "taxonomy">>
        present == {k \in 1..Len(keys) : ghubs_config[keys[k]] # None}
    IN CHOOSE next \in
       {LET processed == [key \in {keys[k] : k \in present} |->
                             checked[CHOOSE k \in present : keys[k] = key].validated]
        IN IF \E k \in present : checked[k].status = "panic"
           THEN [acc EXCEPT !.status = "panic"]
           ELSE IF "taxonomy" \notin DOMAIN processed
           THEN [acc EXCEPT !.rows = Append(@, [processed |-> processed, resolved |-> FALSE])]
           ELSE
           CHOOSE matched \in
           {LET taxonomy_section == processed["taxonomy"]
                has_names == "taxon_names" \in DOMAIN processed
                taxon_match == r.taxon_match
                names1 == IF r.assigned_taxon # None /\ has_names
                          THEN add_new_names(r.assigned_taxon[1], processed["taxon_names"],
                                             acc.names, id_map)
                          ELSE acc.names
                unmatched == taxon_match.rank_status = None /\ taxon_match.rank_options = None
                node == IF unmatched THEN add_new_taxid(taxon_match, taxonomy_section, id_map)
                        ELSE None
                names2 == IF node # None /\ has_names
                          THEN add_new_names([Candidate_default EXCEPT
                                                 !.tax_id = Some(node[1].tax_id)],
                                             processed["taxon_names"], names1, id_map)
                          ELSE names1
            IN [status |-> "ok",
                names |-> names2,
                nodes |-> IF node # None THEN Insert(acc.nodes, node[1].tax_id, node[1])
                          ELSE acc.nodes,
                rows |-> Append(acc.rows,
                            [processed |-> processed, resolved |-> TRUE,
                             assigned_taxon |-> r.assigned_taxon,
                             taxon_match |-> taxon_match, node |-> node])]
            : r \in {match_taxonomy_section(processed["taxonomy"], id_map)}} : TRUE
        : checked \in {[k \in present |-> validate_values(ghubs_config[keys[k]][1], record)]}}
       : TRUE

RECURSIVE nodes_from_file_loop(_, _, _, _)
nodes_from_file_loop(ghubs_config, records, acc, id_map) ==
    IF Len(records) = 0 \/ acc.status = "panic" THEN acc
    ELSE CHOOSE done \in
         {nodes_from_file_loop(ghubs_config, Tail(records), next, id_map)
          : next \in {nodes_from_file_row(ghubs_config, Head(records), acc, id_map)}} : TRUE

\* nodes_from_file(config_file, ghubs_config, id_map): file is the data
\* file read, [headers, records]
nodes_from_file(ghubs_config, file, id_map) ==
    LET updated == [key \in DOMAIN ghubs_config |->
                       IF key # "file" /\ ghubs_config[key] # None
                       THEN Some(update_config(ghubs_config[key][1], file.headers))
                       ELSE ghubs_config[key]]
    IN nodes_from_file_loop(updated, file.records,
           [status |-> "ok", names |-> EmptyMap, nodes |-> EmptyMap, rows |-> <<>>],
           id_map)

\* The loop over tmp_nodes in parse_file
RECURSIVE parse_file_loop(_, _, _, _)
parse_file_loop(tax_ids, tmp_nodes, names, nodes) ==
    IF Len(tax_ids) = 0 THEN nodes
    ELSE LET tax_id == Head(tax_ids)
             name == [Name_default EXCEPT !.tax_id = tax_id,
                                          !.name = tmp_nodes[tax_id].scientific_name[1],
                                          !.class = Some(SCIENTIFIC_NAME)]
             node == [tmp_nodes[tax_id] EXCEPT !.names =
                         IF tax_id \in DOMAIN names THEN Append(names[tax_id], name)
                         ELSE <<name>>]
         IN parse_file_loop(Tail(tax_ids), tmp_nodes, names,
                [nodes |-> Insert(nodes.nodes, tax_id, node),
                 children |-> PushChildUnlessSelf(nodes.children, node.parent_tax_id,
                                                  node.tax_id)])

\* parse_file(config_file, id_map) -> (Nodes, names, Source), for a config
\* already read; rows is the record of the passes of nodes_from_file
parse_file(ghubs_config, file, id_map) ==
    CHOOSE parsed \in
    {IF got.status = "panic" THEN [status |-> "panic", rows |-> got.rows]
     ELSE [status |-> "ok",
           nodes |-> parse_file_loop(SetToSeq(DOMAIN got.nodes), got.nodes, got.names,
                                     Nodes_default),
           names |-> got.names,
           rows |-> got.rows]
     : got \in {nodes_from_file(ghubs_config, file, id_map)}} : TRUE

(***************************************************************************)
(* GenomeHubs configs and `needs`.  The config files are a function from   *)
(* path to the GHubsConfig read from it (serde_yaml::from_reader); a path  *)
(* outside its domain is a file that cannot be opened.  file.needs is the  *)
(* Vec of the paths needed (Single being a Vec of one).                    *)
(***************************************************************************)
Option_or(a, b) == IF a # None THEN a ELSE b

\* GHubsFieldConfig::merge(self, other)
GHubsFieldConfig_merge(self, other) ==
    [o \in DOMAIN self |->
        IF o = "field_type" THEN self.field_type ELSE Option_or(self[o], other[o])]

\* merge_attributes(self_attributes, other_attributes, &mut merged_attributes)
merge_attributes(self_attributes, other_attributes) ==
    IF self_attributes # None /\ other_attributes # None
    THEN LET attributes == self_attributes[1]
             new_attributes == other_attributes[1]
         IN [field \in DOMAIN attributes \cup DOMAIN new_attributes |->
                IF field \in DOMAIN new_attributes
                THEN IF field \in DOMAIN attributes
                     THEN GHubsFieldConfig_merge(attributes[field], new_attributes[field])
                     ELSE new_attributes[field]
                ELSE attributes[field]]
    ELSE IF self_attributes # None THEN self_attributes[1]
    ELSE IF other_attributes # None THEN other_attributes[1]
    ELSE EmptyMap

\* GHubsConfig::merge(self, other)
GHubsConfig_merge(self, other) ==
    [file |-> Option_or(self.file, other.file),
     attributes |-> Some(merge_attributes(self.attributes, other.attributes)),
     taxonomy |-> Some(merge_attributes(self.taxonomy, other.taxonomy)),
     taxon_names |-> Some(merge_attributes(self.taxon_names, other.taxon_names))]

\* parse_genomehubs_config(config_file) -> Result<GHubsConfig, Error> as
\* [ok, config]; the loop over needs_files is needs_loop
RECURSIVE parse_genomehubs_config(_, _)
RECURSIVE needs_loop(_, _, _)
needs_loop(files, needs_files, ghubs_config) ==
    IF Len(needs_files) = 0 THEN [ok |-> TRUE, config |-> ghubs_config]
    ELSE CHOOSE done \in
         {IF ~extra_config.ok THEN extra_config
          ELSE needs_loop(files, Tail(needs_files),
                          GHubsConfig_merge(extra_config.config, ghubs_config))
          : extra_config \in {parse_genomehubs_config(files, Head(needs_files))}} : TRUE

parse_genomehubs_config(files, config_file) ==
    IF config_file \notin DOMAIN files
    THEN [ok |-> FALSE, config |-> GHubsConfig_default]
    ELSE LET ghubs_config == files[config_file] IN
         IF ghubs_config.file # None /\ ghubs_config.file[1].needs # None
         THEN needs_loop(files, ghubs_config.file[1].needs[1], ghubs_config)
         ELSE [ok |-> TRUE, config |-> ghubs_config]

(***************************************************************************)
(* Input taxonomies.  Each is a well-formed hierarchy: ids are unique,     *)
(* every parent id is an entry of the same file, and the parent links      *)
(* lead to one top entry.                                                  *)
(***************************************************************************)
\* An NCBI dump: root 1, order 2 (Oa), clade 3 (no rank), family 4 (Fa),
\* species 5 (Sa, synonym Sx); the retired id 9 was merged into 5.
NCBI_A ==
    [nodes |-> << "1\t|\t1\t|\tno rank\t|",
                  "2\t|\t1\t|\torder\t|\t\t|\t0\t|",
                  "3\t|\t2\t|\tno rank\t|",
                  "4\t|\t3\t|\tfamily\t|",
                  "5\t|\t4\t|\tspecies\t|" >>,
     names |-> << "1\t|\troot\t|\t\t|\tscientific name\t|",
                  "2\t|\tOa\t|\t\t|\tscientific name\t|",
                  "3\t|\tCa\t|\t\t|\tscientific name\t|",
                  "4\t|\tFa\t|\t\t|\tscientific name\t|",
                  "5\t|\tSa\t|\t\t|\tscientific name\t|",
                  "5\t|\tSx\t|\tSx <syn>\t|\tsynonym\t|" >>,
     merged |-> Some(<< "9\t|\t5\t|" >>)]

\* Another NCBI dump in the same id space, in which 3 is a genus below
\* family 4; it has no merged.dmp.
NCBI_B ==
    [nodes |-> << "1\t|\t1\t|\tno rank\t|",
                  "4\t|\t1\t|\tfamily\t|",
                  "3\t|\t4\t|\tgenus\t|" >>,
     names |-> << "1\t|\troot\t|\t\t|\tscientific name\t|",
                  "4\t|\tFa\t|\t\t|\tscientific name\t|",
                  "3\t|\tGb\t|\t\t|\tscientific name\t|" >>,
     merged |-> None]

\* An NCBI dump with homonyms: orders 2 (Carnivora) and 3 (Rodentia),
\* families 4 (Felidae, in 2), 6 (Canidae, in 2) and 10 (Felidae, in 3),
\* species 5 (Panthera leo, in 4), 7 (Panthera leo, in 6) and 8 (Canis
\* lupus, synonym Canis familiaris, in 6); the retired ids 9 and 12 were
\* merged into 5 and 8.
NCBI_C ==
    [nodes |-> << "1\t|\t1\t|\tno rank\t|",
                  "2\t|\t1\t|\torder\t|",
                  "3\t|\t1\t|\torder\t|",
                  "4\t|\t2\t|\tfamily\t|",
                  "6\t|\t2\t|\tfamily\t|",
                  "10\t|\t3\t|\tfamily\t|",
                  "5\t|\t4\t|\tspecies\t|",
                  "7\t|\t6\t|\tspecies\t|",
                  "8\t|\t6\t|\tspecies\t|" >>,
     names |-> << "1\t|\troot\t|\t\t|\tscientific name\t|",
                  "2\t|\tCarnivora\t|\t\t|\tscientific name\t|",
                  "3\t|\tRodentia\t|\t\t|\tscientific name\t|",
                  "4\t|\tFelidae\t|\t\t|\tscientific name\t|",
                  "6\t|\tCanidae\t|\t\t|\tscientific name\t|",
                  "10\t|\tFelidae\t|\tFelidae <rodents>\t|\tscientific name\t|",
                  "5\t|\tPanthera leo\t|\t\t|\tscientific name\t|",
                  "7\t|\tPanthera leo\t|\tPanthera leo <dogs>\t|\tscientific name\t|",
                  "8\t|\tCanis lupus\t|\t\t|\tscientific name\t|",
                  "8\t|\tCanis familiaris\t|\t\t|\tsynonym\t|" >>,
     merged |-> Some(<< "9\t|\t5\t|", "12\t|\t8\t|" >>)]

GbifRecord(tax_id, parent_id, status, rank, name) ==
    [tax_id |-> tax_id, parent |-> parent_id, status |-> status, rank |-> rank,
     name |-> name]

\* A GBIF backbone: order 6 (Oa), family 7 (Fa), species 8 (Sb), and a
\* synonym row 10.
GBIF_A ==
    << GbifRecord("6", "\\N", "ACCEPTED", "ORDER", "Oa"),
       GbifRecord("7", "6", "ACCEPTED", "FAMILY", "Fa"),
       GbifRecord("8", "7", "ACCEPTED", "SPECIES", "Sb"),
       GbifRecord("10", "7", "SYNONYM", "SPECIES", "Sc") >>

\* A GBIF backbone in which the family 7 is DOUBTFUL and holds the
\* accepted species 8.
GBIF_B ==
    << GbifRecord("6", "\\N", "ACCEPTED", "ORDER", "Oa"),
       GbifRecord("7", "6", "DOUBTFUL", "FAMILY", "Fa"),
       GbifRecord("8", "7", "ACCEPTED", "SPECIES", "Sb") >>

EnaTaxon(tax_id, name, rank, lin) ==
    [tax_id |-> tax_id, scientific_name |-> name, rank |-> rank, lineage |-> lin]

\* An ENA feed with a taxon that is new to the tree
ENA_A == << EnaTaxon("11", "Sn", "species", "Oa; Fa; ") >>
\* An ENA feed with a taxon whose id the NCBI tree holds already, and one
\* whose lineage names nothing of the tree
ENA_B == << EnaTaxon("5", "Sa", "species", "Oa; Fa; "),
            EnaTaxon("12", "Sz", "species", "Zz; Yy; ") >>

TaxdumpInputs == {NCBI_A, NCBI_B, NCBI_C}
EnaInputs == {ENA_A, ENA_B}
GbifInputs == {GBIF_A, GBIF_B}
XrefLabels == {None, Some("x")}

\* The trees another taxonomy source can hand to merge
ParsedInputs ==
    {parse_taxdump(d, None) : d \in TaxdumpInputs} \cup {parse_gbif(g) : g \in GbifInputs}

(***************************************************************************)
(* The tree store as a state machine                                       *)
(***************************************************************************)
VARIABLES
    tree,      \* the tree store: Nodes {nodes, children}
    pre,       \* the tree store before the last operation
    last,      \* the last operation and its arguments
    ops,       \* the number of operations so far
    id_map     \* the name index built over the tree, empty before it is built

vars == <<tree, pre, last, ops, id_map>>

\* The number of tree-building operations in a run
MaxOps == 3

Init ==
    /\ tree = Nodes_default
    /\ pre = Nodes_default
    /\ last = [op |-> "new"]
    /\ ops = 0
    /\ id_map = EmptyMap

\* The first taxonomy is parsed into the empty store.
ParseTaxdump ==
    /\ ops = 0
    /\ \E d \in TaxdumpInputs, l \in XrefLabels :
          /\ tree' = parse_taxdump(d, l)
          /\ last' = [op |-> "parse_taxdump", xref_label |-> l]
    /\ pre' = tree
    /\ ops' = ops + 1
    /\ id_map' = id_map

ParseGbif ==
    /\ ops = 0
    /\ \E g \in GbifInputs :
          /\ tree' = parse_gbif(g)
          /\ last' = [op |-> "parse_gbif"]
    /\ pre' = tree
    /\ ops' = ops + 1
    /\ id_map' = id_map

Merge ==
    /\ ops \in 1..(MaxOps - 1)
    /\ \E other \in ParsedInputs :
          /\ tree' = merge(tree, other)
          /\ last' = [op |-> "merge", new_nodes |-> other]
    /\ pre' = tree
    /\ ops' = ops + 1
    /\ id_map' = id_map

\* An ENA feed is attached to the existing tree.
EnaAttach ==
    /\ ops \in 1..(MaxOps - 1)
    /\ IndexReturns(tree)
    /\ \E jsonl \in EnaInputs :
          /\ tree' = parse_ena_jsonl(jsonl, tree)
          /\ last' = [op |-> "parse_ena_jsonl"]
    /\ pre' = tree
    /\ ops' = ops + 1
    /\ id_map' = id_map

\* The nodes of another taxonomy are looked up in the tree by name and
\* lineage: a match leaves a cross-reference, and with create_taxa a node
\* below a matched one is added to the tree.
LookupNodes ==
    /\ ops \in 1..(MaxOps - 1)
    /\ IndexReturns(tree)
    /\ \E g \in GbifInputs, xref_label \in XrefLabels, create_taxa \in BOOLEAN :
          LET new_nodes == parse_gbif(g) IN
          \E families \in nodes_by_rank(new_nodes, LOOKUP_RANKS[1]),
             genera \in nodes_by_rank(new_nodes, LOOKUP_RANKS[2]),
             species \in nodes_by_rank(new_nodes, LOOKUP_RANKS[3]),
             subspecies \in nodes_by_rank(new_nodes, LOOKUP_RANKS[4]) :
              LET by_rank == (LOOKUP_RANKS[1] :> families) @@ (LOOKUP_RANKS[2] :> genera)
                             @@ (LOOKUP_RANKS[3] :> species)
                             @@ (LOOKUP_RANKS[4] :> subspecies) IN
              /\ tree' = lookup_nodes(new_nodes, tree, {SCIENTIFIC_NAME}, {SCIENTIFIC_NAME},
                                      xref_label, create_taxa, by_rank)
              /\ last' = [op |-> "lookup_nodes", new_nodes |-> new_nodes,
                          xref_label |-> xref_label, create_taxa |-> create_taxa]
    /\ pre' = tree
    /\ ops' = ops + 1
    /\ id_map' = id_map

Next == ParseTaxdump \/ ParseGbif \/ Merge \/ EnaAttach \/ LookupNodes

Spec == Init /\ [][Next]_vars

(***************************************************************************)
(* The name resolver: an index is built over the tree for a choice of name *)
(* classes and one taxonomy section is matched against it.  `last` keeps   *)
(* the section, the index and what match_taxonomy_section returned.        *)
(***************************************************************************)
NameClassSets ==
    { {SCIENTIFIC_NAME},
      {SCIENTIFIC_NAME, MERGED_TAXON_ID},
      {SCIENTIFIC_NAME, SYNONYM, MERGED_TAXON_ID} }

\* The taxon_id of a section: absent, the null values "None", "NA" and "",
\* the id of a taxon (5, 8), a retired id (9, 12) or an id the tree does not
\* know (77)
SectionIds ==
    {EmptyMap} \cup {("taxon_id" :> t) : t \in {"None", "NA", "", "5", "8", "9", "12", "77"}}

\* The primary name: a homonym, a unique name, the unique name in another
\* spelling, a typo of the homonym, a name the tree does not hold
SectionNames ==
    {("species" :> n) : n \in {"Panthera leo", "Canis lupus", "Canis-Lupus",
                               "Panthera Ieo", "Vulpes zerda"}}

\* The higher-rank context: none, a homonym family, a unique family, typos
\* of both, a unique order, a homonym family with a unique order
SectionHigher ==
    { EmptyMap,
      ("family" :> "Felidae"), ("family" :> "Canidae"),
      ("family" :> "Felidee"), ("family" :> "Canidea"),
      ("order" :> "Carnivora"),
      ("family" :> "Felidae") @@ ("order" :> "Rodentia") }

Sections == {i @@ n @@ h : i \in SectionIds, n \in SectionNames, h \in SectionHigher}

\* The index is built once over the loaded tree.
BuildIndex ==
    /\ ops = 1
    /\ last.op = "parse_taxdump"
    /\ IndexReturns(tree)
    /\ \E name_classes \in NameClassSets :
          /\ id_map' = build_fast_lookup(tree, name_classes)
          /\ last' = [op |-> "build_fast_lookup", name_classes |-> name_classes]
    /\ pre' = tree
    /\ UNCHANGED <<tree, ops>>

\* One taxonomy section is matched against the index.  The call reads the
\* index and changes nothing, so one section per run shows all it returns.
Resolve ==
    /\ last.op = "build_fast_lookup"
    /\ \E taxonomy_section \in Sections :
          LET r == match_taxonomy_section(taxonomy_section, id_map)
          IN last' = [op |-> "match_taxonomy_section",
                      taxonomy_section |-> taxonomy_section,
                      assigned_taxon |-> r.assigned_taxon,
                      taxon_match |-> r.taxon_match]
    /\ UNCHANGED <<tree, pre, ops, id_map>>

NextMatch == ParseTaxdump \/ BuildIndex \/ Resolve

SpecMatch == Init /\ [][NextMatch]_vars


(***************************************************************************)
(* The dump writer: a slice of the parsed tree is written and the files    *)
(* written are parsed again.                                               *)
(***************************************************************************)
\* The number of root ids of a slice
MaxRoots == 2

\* The root_ids of a slice: distinct ids of the tree
RootIdVecs ==
    {<<r>> : r \in DOMAIN tree.nodes}
    \cup (IF MaxRoots >= 2
          THEN {<<r, q>> : r \in DOMAIN tree.nodes, q \in DOMAIN tree.nodes} \ 
               {<<r, r>> : r \in DOMAIN tree.nodes}
          ELSE {})

WriteTaxdump ==
    /\ last.op = "parse_taxdump"
    /\ \E root_ids \in RootIdVecs, base_id \in {None, Some(ROOT_ID)} :
          LET out == write_taxdump(tree, root_ids, base_id) IN
          /\ out.status = "ok"
          /\ last' = [op |-> "write_taxdump", xref_label |-> last.xref_label,
                      root_ids |-> root_ids, base_id |-> base_id,
                      nodes |-> out.nodes, names |-> out.names]
    /\ UNCHANGED <<tree, pre, ops, id_map>>

\* The two files written are parsed as a taxdump without merged.dmp.
ParseWritten ==
    /\ last.op = "write_taxdump"
    /\ \E l \in XrefLabels :
          /\ tree' = parse_taxdump([nodes |-> last.nodes, names |-> last.names,
                                    merged |-> None], l)
          /\ last' = [op |-> "parse_written", xref_label |-> l,
                      written_from |-> last.xref_label,
                      root_ids |-> last.root_ids, base_id |-> last.base_id]
    /\ pre' = tree
    /\ ops' = ops + 1
    /\ id_map' = id_map

NextDump == ParseTaxdump \/ WriteTaxdump \/ ParseWritten

SpecDump == Init /\ [][NextDump]_vars

(***************************************************************************)
(* The ingest of a data file: over the index built, one GenomeHubs data    *)
(* file is read under its config.  `last` keeps the config, the file and   *)
(* what parse_file returned, with the record of the rows.                  *)
(***************************************************************************)
\* The number of rows of a data file
MaxRows == 2

Headers == <<"taxon_id", "alt_taxon_id", "species", "family", "order", "common_name">>

Field(header) == [GHubsFieldConfig_default EXCEPT !.header = Some(<<header>>)]

\* A config of keyword fields: the taxonomy of a row, with or without the
\* column alt_taxon_id, and one taxon name
TaxaConfig(with_alt_id) ==
    [GHubsConfig_default EXCEPT
        !.taxonomy = Some(("taxon_id" :> Field("taxon_id"))
                          @@ ("alt_taxon_id" :>
                                 IF with_alt_id THEN Field("alt_taxon_id")
                                 ELSE GHubsFieldConfig_default)
                          @@ ("species" :> Field("species"))
                          @@ ("family" :> Field("family"))
                          @@ ("order" :> Field("order"))),
        !.taxon_names = Some(("common name" :> Field("common_name")))]

TaxaConfigs == {TaxaConfig(b) : b \in BOOLEAN}

\* Rows: a new species under a unique family; the same alt_taxon_id under
\* a unique order; a misspelt known species; the alt_taxon_id NA; a known
\* species with a taxon_id that is not its own; a known species; a new
\* species under a family of two taxa
TaxaRows ==
    { <<"", "X:1", "Novel species", "Canidae", "", "novel">>,
      <<"", "X:1", "Novel species", "", "Rodentia", "">>,
      <<"", "X:2", "Panthera Ieo", "Canidae", "", "">>,
      <<"", "NA", "Novel species", "Canidae", "", "">>,
      <<"77", "X:4", "Canis lupus", "Canidae", "", "">>,
      <<"", "X:5", "Canis lupus", "Canidae", "", "wolf">>,
      <<"", "X:3", "Novel species", "Felidae", "", "">> }

RowVecs(rows) == UNION {[1..n -> rows] : n \in 1..MaxRows}

ParseFile ==
    /\ last.op = "build_fast_lookup"
    /\ \E ghubs_config \in TaxaConfigs, records \in RowVecs(TaxaRows) :
          LET file == [headers |-> Headers, records |-> records] IN
          \E r \in {parse_file(ghubs_config, file, id_map)} :
             /\ r.status = "ok"
             /\ last' = [op |-> "parse_file", ghubs_config |-> ghubs_config,
                         file |-> file, nodes |-> r.nodes, names |-> r.names,
                         rows |-> r.rows]
    /\ UNCHANGED <<tree, pre, ops, id_map>>

NextIngest == ParseTaxdump \/ BuildIndex \/ ParseFile

SpecIngest == Init /\ [][NextIngest]_vars

(***************************************************************************)
(* Validation of one record: a data file with a typed attribute `length`,  *)
(* a keyword attribute `habitat` and the taxonomy columns.  status is      *)
(* "panic" when nodes_from_file does not return.                           *)
(***************************************************************************)
ValueHeaders == <<"species", "family", "length", "habitat">>

RawValues == {"50", "150", "100.5", "-1", "200", "abc", "NA"}

Constraints == {None, Some([min |-> Some(0), max |-> Some(100)])}

Functions == {None, Some("{} * 2")}

ValueConfig(field_type, constraint, function) ==
    [GHubsConfig_default EXCEPT
        !.attributes = Some(
            "length" :> [Field("length") EXCEPT !.field_type = field_type,
                                                !.constraint = constraint,
                                                !.function = function]
            @@ "habitat" :> Field("habitat")),
        !.taxonomy = Some("species" :> Field("species") @@ "family" :> Field("family"))]

ValueRecord(value) == <<"Canis lupus", "Canidae", value, "forest">>

ValidateRecord ==
    /\ last.op = "build_fast_lookup"
    /\ \E field_type \in FieldTypes, constraint \in Constraints,
          function \in Functions, value \in RawValues :
          LET ghubs_config == ValueConfig(field_type, constraint, function)
              file == [headers |-> ValueHeaders, records |-> <<ValueRecord(value)>>]
          IN \E r \in {nodes_from_file(ghubs_config, file, id_map)} :
                last' = [op |-> "nodes_from_file", ghubs_config |-> ghubs_config,
                         file |-> file, status |-> r.status, rows |-> r.rows]
    /\ UNCHANGED <<tree, pre, ops, id_map>>

NextValidate == ParseTaxdump \/ BuildIndex \/ ValidateRecord

SpecValidate == Init /\ [][NextValidate]_vars

(***************************************************************************)
(* Sources that name a taxon more than once: an NCBI dump whose names.dmp  *)
(* has two scientific-name lines for the order 2, and a GBIF backbone with *)
(* two ACCEPTED rows for the species 8.                                    *)
(***************************************************************************)
NCBI_D ==
    [nodes |-> << "1\t|\t1\t|\tno rank\t|",
                  "2\t|\t1\t|\torder\t|",
                  "4\t|\t2\t|\tfamily\t|" >>,
     names |-> << "1\t|\troot\t|\t\t|\tscientific name\t|",
                  "2\t|\tOa\t|\t\t|\tscientific name\t|",
                  "2\t|\tOb\t|\t\t|\tscientific name\t|",
                  "4\t|\tFa\t|\t\t|\tscientific name\t|" >>,
     merged |-> None]

GBIF_C ==
    << GbifRecord("6", "\\N", "ACCEPTED", "ORDER", "Oa"),
       GbifRecord("7", "6", "ACCEPTED", "FAMILY", "Fa"),
       GbifRecord("8", "7", "ACCEPTED", "SPECIES", "Sb"),
       GbifRecord("8", "7", "ACCEPTED", "SPECIES", "Sc") >>

ParseRepeatedNames ==
    /\ ops = 0
    /\ \/ \E l \in XrefLabels :
             /\ tree' = parse_taxdump(NCBI_D, l)
             /\ last' = [op |-> "parse_taxdump", xref_label |-> l]
       \/ /\ tree' = parse_gbif(GBIF_C)
          /\ last' = [op |-> "parse_gbif"]
    /\ pre' = tree
    /\ ops' = ops + 1
    /\ id_map' = id_map

NextSources ==
    ParseTaxdump \/ ParseGbif \/ ParseRepeatedNames \/ Merge \/ BuildIndex \/ ParseFile

SpecSources == Init /\ [][NextSources]_vars

(***************************************************************************)
(* GBIF backbones with rows of every status: the order 6 and up to         *)
(* MaxGbifRows rows for the species 8 (Sb) and 9 (Sc) of that order.       *)
(***************************************************************************)
MaxGbifRows == 2

\* The statuses of the backbone, and one that is none of them
GbifStatuses ==
    {"ACCEPTED", "DOUBTFUL", "HETEROTYPIC_SYNONYM", "HOMOTYPIC_SYNONYM", "MISAPPLIED",
     "PROPARTE_SYNONYM", "SYNONYM", "UNRANKED"}

GbifRows ==
    {GbifRecord("8", "6", status, "SPECIES", "Sb") : status \in GbifStatuses}
    \cup {GbifRecord("9", "6", status, "SPECIES", "Sc") : status \in GbifStatuses}

Backbones ==
    {<<GbifRecord("6", "\\N", "ACCEPTED", "ORDER", "Oa")>> \o rows :
        rows \in UNION {[1..n -> GbifRows] : n \in 1..MaxGbifRows}}

ParseBackbone ==
    /\ ops = 0
    /\ \E gbif_backbone \in Backbones :
          /\ tree' = parse_gbif(gbif_backbone)
          /\ last' = [op |-> "parse_gbif", gbif_backbone |-> gbif_backbone]
    /\ pre' = tree
    /\ ops' = ops + 1
    /\ id_map' = id_map

NextGbif == ParseBackbone

SpecGbif == Init /\ [][NextGbif]_vars

(***************************************************************************)
(* The rank letters of two nodes and the index keys they give: the ranks   *)
(* are the eight ranks of RANKS and four ranks outside them.               *)
(***************************************************************************)
NodeRanks == rank_set \cup {"superkingdom", "subfamily", "clade", "genotype"}

RankedNode(rank) ==
    [tax_id |-> "2", parent_tax_id |-> "1", rank |-> rank, names |-> None,
     scientific_name |-> None]

RankLetters ==
    /\ last.op = "new"
    /\ \E rank_a \in NodeRanks, rank_b \in NodeRanks, higher \in {"family", "order"},
          name_a \in {"aa", "ab"}, name_b \in {"aa", "ab"} :
          LET a == RankedNode(rank_a)
              b == RankedNode(rank_b)
              n == RankedNode(higher)
          IN last' = [op |-> "rank_letter", a |-> a, b |-> b,
                      letters |-> <<rank_letter(a), rank_letter(b)>>,
                      keys |-> <<rank_letter_key(a, name_a, n, "fa"),
                                 rank_letter_key(b, name_b, n, "fa")>>]
    /\ UNCHANGED <<tree, pre, ops, id_map>>

NextRank == RankLetters

SpecRank == Init /\ [][NextRank]_vars

(***************************************************************************)
(* One line of an NCBI dump: four leading fields, further fields or none,  *)
(* parsed as a node line and as a name line.  No field holds a tab.        *)
(***************************************************************************)
LineFields ==
    {<<a, b, c, d>> : a \in {"1", "562"}, b \in {"1", "all", "Homo sapiens"},
                      c \in {"", "no rank", "all <syn>"},
                      d \in {"synonym", "scientific name"}}

FurtherFields == {<<>>, <<"0">>, <<"", "11", "0">>}

ParseLine ==
    /\ last.op = "new"
    /\ \E fields \in LineFields, further \in FurtherFields, xref_label \in XrefLabels :
          LET input == JoinStr(fields \o further, FIELD_SEP) \o FIELD_END IN
          last' = [op |-> "parse_line", fields |-> fields, further |-> further,
                   xref_label |-> xref_label, input |-> input,
                   node |-> Node_parse(input),
                   name |-> Name_parse(input, xref_label),
                   rest |-> separated_list0(input).rest]
    /\ UNCHANGED <<tree, pre, ops, id_map>>

NextLine == ParseLine

SpecLine == Init /\ [][NextLine]_vars

(***************************************************************************)
(* Two sections that differ in their lower-rank context only: the primary  *)
(* rank is species (context genus) or subspecies (context species or     *)
(* genus), with the ids and higher ranks of Sections.                      *)
(***************************************************************************)
\* The names given as context: two the index holds at another rank or not
\* at all, and the names of taxa of the index
ContextNames == {"Panthera", "Felidae", "Canis lupus"}

PrimaryNames ==
    {("species" :> n) : n \in {"Panthera leo", "Panthera Ieo"}}
    \cup {("subspecies" :> "Canis lupus familiaris")}

\* The lower-rank keys that follow the primary rank in RANKS
ContextKeys(primary) ==
    IF "subspecies" \in DOMAIN primary THEN {{"species"}, {"genus"}}
    ELSE {{"genus"}}

ResolvePair ==
    /\ last.op = "build_fast_lookup"
    /\ \E i \in {EmptyMap, ("taxon_id" :> "77")},
          primary \in PrimaryNames, h \in SectionHigher :
          \E keys \in ContextKeys(primary) :
             \E context_a \in [keys -> ContextNames], context_b \in [keys -> ContextNames] :
                LET section_a == i @@ primary @@ h @@ context_a
                    section_b == i @@ primary @@ h @@ context_b
                IN \E a \in {match_taxonomy_section(section_a, id_map)},
                      b \in {match_taxonomy_section(section_b, id_map)} :
                      last' = [op |-> "match_pair",
                               sections |-> <<section_a, section_b>>,
                               assigned_taxon |-> <<a.assigned_taxon, b.assigned_taxon>>,
                               taxon_match |-> <<a.taxon_match, b.taxon_match>>]
    /\ UNCHANGED <<tree, pre, ops, id_map>>

NextContext == ParseTaxdump \/ BuildIndex \/ ResolvePair

SpecContext == Init /\ [][NextContext]_vars

(***************************************************************************)
(* One row read in two data files over the same index: alone, and after    *)
(* rows for which nodes are created or which are assigned.                 *)
(***************************************************************************)
\* The number of rows before the row
MaxBefore == 1

RowsBefore ==
    { <<"", "X:1", "Novel species", "Canidae", "", "novel">>,
      <<"", "X:1", "Novel species", "", "Rodentia", "">>,
      <<"", "X:5", "Canis lupus", "Canidae", "", "wolf">> }

ParseFilePair ==
    /\ last.op = "build_fast_lookup"
    /\ \E ghubs_config \in TaxaConfigs, record \in TaxaRows :
       \E before \in UNION {[1..n -> RowsBefore] : n \in 1..MaxBefore} :
          LET files == <<<<record>>, before \o <<record>>>> IN
          \E r \in {[f \in 1..2 |->
                       parse_file(ghubs_config, [headers |-> Headers, records |-> files[f]],
                                  id_map)]} :
             /\ r[1].status = "ok" /\ r[2].status = "ok"
             /\ last' = [op |-> "parse_file_pair", ghubs_config |-> ghubs_config,
                         record |-> record, before |-> before,
                         before_rows |-> SubSeq(r[2].rows, 1, Len(before)),
                         alone |-> r[1].rows[1], after |-> r[2].rows[Len(r[2].rows)]]
    /\ UNCHANGED <<tree, pre, ops, id_map>>

NextRows == ParseTaxdump \/ BuildIndex \/ ParseFilePair

SpecRows == Init /\ [][NextRows]_vars

(***************************************************************************)
(* lookup_nodes with a backbone of which several taxa of one rank are in   *)
(* the tree.                                                               *)
(***************************************************************************)
\* A GBIF backbone with two species of the family Canidae, both in NCBI_C
GBIF_D ==
    << GbifRecord("20", "\\N", "ACCEPTED", "ORDER", "Carnivora"),
       GbifRecord("21", "20", "ACCEPTED", "FAMILY", "Canidae"),
       GbifRecord("22", "21", "ACCEPTED", "SPECIES", "Canis lupus"),
       GbifRecord("23", "21", "ACCEPTED", "SPECIES", "Panthera leo") >>

\* A GBIF backbone with one species that NCBI_C holds and one it does not
GBIF_E ==
    << GbifRecord("20", "\\N", "ACCEPTED", "ORDER", "Carnivora"),
       GbifRecord("21", "20", "ACCEPTED", "FAMILY", "Canidae"),
       GbifRecord("22", "21", "ACCEPTED", "SPECIES", "Canis lupus"),
       GbifRecord("24", "21", "ACCEPTED", "SPECIES", "Vulpes vulpes") >>

LookupBackbone ==
    /\ ops \in 1..(MaxOps - 1)
    /\ IndexReturns(tree)
    /\ \E g \in {GBIF_D, GBIF_E}, xref_label \in XrefLabels, create_taxa \in BOOLEAN :
          LET new_nodes == parse_gbif(g) IN
          \E families \in nodes_by_rank(new_nodes, LOOKUP_RANKS[1]),
             genera \in nodes_by_rank(new_nodes, LOOKUP_RANKS[2]),
             species \in nodes_by_rank(new_nodes, LOOKUP_RANKS[3]),
             subspecies \in nodes_by_rank(new_nodes, LOOKUP_RANKS[4]) :
              LET by_rank == (LOOKUP_RANKS[1] :> families) @@ (LOOKUP_RANKS[2] :> genera)
                             @@ (LOOKUP_RANKS[3] :> species)
                             @@ (LOOKUP_RANKS[4] :> subspecies) IN
              /\ tree' = lookup_nodes(new_nodes, tree, {SCIENTIFIC_NAME}, {SCIENTIFIC_NAME},
                                      xref_label, create_taxa, by_rank)
              /\ last' = [op |-> "lookup_nodes", new_nodes |-> new_nodes,
                          xref_label |-> xref_label, create_taxa |-> create_taxa]
    /\ pre' = tree
    /\ ops' = ops + 1
    /\ id_map' = id_map

NextXref == ParseTaxdump \/ Merge \/ LookupBackbone

SpecXref == Init /\ [][NextXref]_vars

(***************************************************************************)
(* Both indices built over one tree: the table of build_lookup and the     *)
(* map of build_fast_lookup.                                               *)
(***************************************************************************)
\* An NCBI dump in which the species 5 has a synonym that differs from its
\* scientific name in case only, and the species 6 two scientific names
\* that differ in case only
NCBI_E ==
    [nodes |-> << "1\t|\t1\t|\tno rank\t|",
                  "2\t|\t1\t|\torder\t|",
                  "4\t|\t2\t|\tfamily\t|",
                  "5\t|\t4\t|\tspecies\t|",
                  "6\t|\t4\t|\tspecies\t|" >>,
     names |-> << "1\t|\troot\t|\t\t|\tscientific name\t|",
                  "2\t|\tOa\t|\t\t|\tscientific name\t|",
                  "4\t|\tFa\t|\t\t|\tscientific name\t|",
                  "5\t|\tCanis lupus\t|\t\t|\tscientific name\t|",
                  "5\t|\tCanis Lupus\t|\t\t|\tsynonym\t|",
                  "6\t|\tVulpes vulpes\t|\t\t|\tscientific name\t|",
                  "6\t|\tVulpes Vulpes\t|\t\t|\tscientific name\t|" >>,
     merged |-> None]

ParseCaseVariants ==
    /\ ops = 0
    /\ \E l \in XrefLabels :
          /\ tree' = parse_taxdump(NCBI_E, l)
          /\ last' = [op |-> "parse_taxdump", xref_label |-> l]
    /\ pre' = tree
    /\ ops' = ops + 1
    /\ id_map' = id_map

BuildTables ==
    /\ ops \in 1..(MaxOps - 1)
    /\ last.op \in {"parse_taxdump", "merge"}
    /\ IndexReturns(tree)
    /\ \E name_classes \in NameClassSets, with_letter \in BOOLEAN :
          /\ id_map' = build_fast_lookup(tree, name_classes)
          /\ last' = [op |-> "build_lookup", name_classes |-> name_classes,
                      rank_letter |-> with_letter,
                      table |-> build_lookup(tree, name_classes, with_letter)]
    /\ pre' = tree
    /\ UNCHANGED <<tree, ops>>

NextIndex == ParseTaxdump \/ ParseCaseVariants \/ Merge \/ BuildTables

SpecIndex == Init /\ [][NextIndex]_vars

(***************************************************************************)
(* calculate_grid_size(num_items) of the plot module: the dimensions of    *)
(* the grid that holds num_items plots.                                    *)
(***************************************************************************)
\* num_integer::sqrt on usize: the truncated square root
sqrt(n) == CHOOSE r \in 0..n : r * r <= n /\ (r + 1) * (r + 1) > n

calculate_grid_size(num_items) ==
    LET square == IF num_items > 0 THEN <<sqrt(num_items), sqrt(num_items)>> ELSE <<0, 0>>
        \* "if not a perfect square, add one to the max dimension"
        wider == IF num_items > square[1] * square[2]
                 THEN <<square[1], square[2] + 1>> ELSE square
        \* "if not an n(n+1) rectangle, add one to the max dimension"
        widest == IF num_items > wider[1] * wider[2]
                  THEN <<wider[1], wider[2] + 1>> ELSE wider
        \* "if not an n(n+2) rectangle, make an (n+1)(n+1) larger square"
        grid_size == IF num_items > widest[1] * widest[2]
                     THEN <<widest[1] + 1, widest[2] - 1>> ELSE widest
    IN grid_size

\* The largest number of items
MaxItems == 120

CalculateGridSize ==
    /\ last.op \in {"new", "calculate_grid_size"}
    /\ \E num_items \in 0..MaxItems :
          last' = [op |-> "calculate_grid_size", num_items |-> num_items,
                   grid_size |-> calculate_grid_size(num_items)]
    /\ UNCHANGED <<tree, pre, ops, id_map>>

NextGrid == CalculateGridSize

SpecGrid == Init /\ [][NextGrid]_vars

(***************************************************************************)
(* Reading a config that needs another: outer.yaml names inner.yaml under  *)
(* file.needs; both may define the attribute `length`.                     *)
(***************************************************************************)
FieldChoices ==
    {[GHubsFieldConfig_default EXCEPT !.header = header, !.separator = separator,
                                      !.field_type = field_type] :
        header \in {None, Some(<<"length">>), Some(<<"size">>)},
        separator \in {None, Some(","), Some(";")},
        field_type \in {"keyword", "integer"}}

FileConfig(name, needs) == [format |-> "tsv", header |-> TRUE, name |-> name, needs |-> needs]

OuterConfigs ==
    {[GHubsConfig_default EXCEPT
         !.file = Some(FileConfig("outer.tsv", Some(<<"inner.yaml">>))),
         !.attributes = attributes,
         !.taxonomy = Some("species" :> Field("species"))] :
        attributes \in {None} \cup {Some("length" :> f) : f \in FieldChoices}}

InnerConfigs ==
    {[GHubsConfig_default EXCEPT
         !.file = file,
         !.attributes = Some(key :> f),
         !.taxon_names = Some("common name" :> Field("common_name"))] :
        file \in {None, Some(FileConfig("inner.tsv", None))},
        key \in {"length", "count"},
        f \in FieldChoices}

ParseConfig ==
    /\ last.op = "new"
    /\ \E outer \in OuterConfigs, inner \in InnerConfigs, present \in BOOLEAN :
          LET files == IF present
                       THEN "outer.yaml" :> outer @@ "inner.yaml" :> inner
                       ELSE "outer.yaml" :> outer
          IN \E r \in {parse_genomehubs_config(files, "outer.yaml")} :
                last' = [op |-> "parse_genomehubs_config", files |-> files,
                         ok |-> r.ok, config |-> r.config]
    /\ UNCHANGED <<tree, pre, ops, id_map>>

NextConfig == ParseConfig

SpecConfig == Init /\ [][NextConfig]_vars

(***************************************************************************)
(* Properties of the tree store (specification Spec)                       *)
(***************************************************************************)
SelfParented(nodes) ==
    {t \in DOMAIN nodes.nodes : nodes.nodes[t].parent_tax_id = nodes.nodes[t].tax_id}

\* C1: after any sequence of tree-building operations, every node whose
\* parent is not itself has its parent_tax_id among the keys of nodes and
\* its tax_id among children[parent_tax_id].
C1_ParentIsNodeAndListsChild ==
    \A t \in DOMAIN tree.nodes :
        LET n == tree.nodes[t] IN
        n.parent_tax_id # n.tax_id =>
            /\ n.parent_tax_id \in DOMAIN tree.nodes
            /\ ChildCount(tree.children, n.parent_tax_id, n.tax_id) >= 1

NoRepeat(s) == \A i, j \in 1..Len(s) : i # j => s[i].tax_id # s[j].tax_id

\* The root ids asked for: every id of the tree and the two root ids of the
\* sources, whether the tree holds them or not
RootIds == DOMAIN tree.nodes \cup {ROOT_ID, GBIF_ROOT}

\* C2: for every node n of a tree reached by parse and merge operations and
\* every root_id, lineage(root_id, n.tax_id) returns, and the list it
\* returns holds no tax_id twice.
C2_LineageReturnsWithoutRepeats ==
    last.op \in {"parse_taxdump", "parse_gbif", "merge"} =>
        \A t \in DOMAIN tree.nodes, r \in RootIds :
            LET l == lineage_run(tree.nodes, r, t) IN
            l.status = "ok" /\ NoRepeat(l.nodes)

\* B is within A: every node of B is a node of A, the same in every field
Within(B, A) ==
    \A k \in DOMAIN B.nodes : k \in DOMAIN A.nodes /\ A.nodes[k] = B.nodes[k]

\* C4: a merge of a tree whose nodes are all in the receiving tree already
\* leaves nodes and children of the receiving tree as they were.
C4_MergeOfSubsetChangesNothing ==
    (last.op = "merge" /\ Within(last.new_nodes, pre)) => tree = pre

\* C5: after any sequence of operations, for every id p, children[p] holds
\* exactly the tax_ids c # p of the nodes whose parent_tax_id is p, each
\* once.
C5_ChildrenAreExactlyTheChildNodes ==
    \A p \in DOMAIN tree.children \cup DOMAIN tree.nodes :
        \A c \in DOMAIN tree.nodes
                 \cup (IF p \in DOMAIN tree.children
                       THEN BagToSet(tree.children[p]) ELSE {}) :
            ChildCount(tree.children, p, c) =
                IF c \in DOMAIN tree.nodes /\ c # p /\ tree.nodes[c].parent_tax_id = p
                THEN 1 ELSE 0

\* C6: every tree reached by parsing one taxonomy and then merging or
\* attaching further ones has exactly one node that is its own parent.
C6_SingleSelfParentedNode ==
    ops >= 1 => Cardinality(SelfParented(tree)) = 1

(***************************************************************************)
(* Properties of the name resolver (specification SpecMatch)               *)
(***************************************************************************)
Resolved == last.op = "match_taxonomy_section"

\* The variant of an Option<MatchStatus>
StatusKind(status) == IF status = None THEN "None" ELSE status[1].kind

\* The rank of the record: the first rank of the section
primary_rank == ranks_to_check(last.taxonomy_section)[1]

\* The entries of the index under the normalized name of the record
PrimaryEntries ==
    LET key == clean_name(last.taxonomy_section[primary_rank]) IN
    IF key \in DOMAIN id_map THEN id_map[key] ELSE <<>>

\* The taxon_id of the section, if it has one that is not the null "None"
Supplied ==
    IF "taxon_id" \in DOMAIN last.taxonomy_section
       /\ last.taxonomy_section["taxon_id"] # "None"
    THEN {last.taxonomy_section["taxon_id"]} ELSE {}

\* The supplied taxon_id is a key of the index with one entry
ResolvedById == \E t \in Supplied : t \in DOMAIN id_map /\ Len(id_map[t]) = 1

\* M is a merged taxon id of the taxon T of the tree
IsMergedIdOf(M, T) ==
    /\ T \in DOMAIN tree.nodes
    /\ \E k \in 1..Len(tree.nodes[T].names) :
          /\ tree.nodes[T].names[k].class = Some(MERGED_TAXON_ID)
          /\ tree.nodes[T].names[k].name = M

AssignedIds == {last.assigned_taxon[k].tax_id : k \in 1..Len(last.assigned_taxon)}

\* The section {taxon_id: M, <rank of T>: <scientific name of T>} for a
\* taxon T that the index holds under its merged id M
MergedIdQuery(M, T) ==
    /\ IsMergedIdOf(M, T)
    /\ M \in DOMAIN id_map
    /\ \E k \in 1..Len(id_map[M]) : id_map[M][k].tax_id = T
    /\ last.taxonomy_section =
          ("taxon_id" :> M) @@ (tree.nodes[T].rank :> scientific_name(tree.nodes[T]))

\* C7: when the index holds a taxon T that bears the merged taxon id M, the
\* section {taxon_id: M, <rank>: <name of T>} gets rank_status MergeMatch and
\* an assigned candidate with tax_id T.
C7_MergedIdGivesMergeMatch ==
    Resolved =>
        \A T \in DOMAIN tree.nodes, M \in Supplied :
            MergedIdQuery(M, T) =>
                /\ StatusKind(last.taxon_match.rank_status) = "MergeMatch"
                /\ AssignedIds = {Some(T)}

\* The candidates of the rank status
RankCandidates ==
    IF last.taxon_match.rank_status = None THEN <<>>
    ELSE last.taxon_match.rank_status[1].taxa

InLineage(h, c) == h.tax_id[1] \in c.anc_ids[1]

\* The higher-rank exact status names one taxon, which is an ancestor of c
UnderExactHigher(c) ==
    /\ StatusKind(last.taxon_match.higher_status) \in {"Match", "PutativeMatch"}
    /\ InLineage(last.taxon_match.higher_status[1].taxa[1], c)

\* C8 as the specification states it: for a rank status PutativeMatch or
\* MultiMatch a taxon is assigned if and only if exactly one candidate has
\* the tax_id of the higher-rank Match / PutativeMatch in its anc_ids; with
\* no such status (no higher rank, fuzzy options only, several higher
\* candidates) nothing is assigned.
C8_AssignedIffOneUnderExactHigher ==
    (Resolved /\ StatusKind(last.taxon_match.rank_status) \in {"PutativeMatch", "MultiMatch"}) =>
        (last.assigned_taxon # None <=> Count(RankCandidates, UnderExactHigher) = 1)

\* What the higher ranks of the section say about a candidate c: the one
\* exact higher taxon is an ancestor of c; or, of several exact higher taxa
\* of one name, exactly one is; or, with no exact higher taxon, exactly one
\* of the fuzzy higher options is.
ConsistentWithHigher(c) ==
    LET tm == last.taxon_match IN
    CASE StatusKind(tm.higher_status) = "PutativeMatch" ->
            InLineage(tm.higher_status[1].taxa[1], c)
      [] StatusKind(tm.higher_status) = "MultiMatch" ->
            Cardinality({k \in 1..Len(tm.higher_status[1].taxa) :
                            InLineage(tm.higher_status[1].taxa[k], c)}) = 1
      [] OTHER ->
            /\ tm.higher_options # None
            /\ Cardinality({k \in 1..Len(tm.higher_options[1]) :
                               InLineage(tm.higher_options[1][k], c)}) = 1

\* C8, amended: for a rank status PutativeMatch or MultiMatch a taxon is
\* assigned if and only if exactly one candidate is consistent with the
\* higher ranks, where several exact higher taxa and fuzzy higher options
\* count when exactly one of them is an ancestor of the candidate; the
\* assigned taxon is that candidate, and with no higher rank in the section
\* nothing is assigned.
C8_AssignedIffOneConsistentCandidate ==
    (Resolved /\ StatusKind(last.taxon_match.rank_status) \in {"PutativeMatch", "MultiMatch"}) =>
        LET ok == {k \in 1..Len(RankCandidates) : ConsistentWithHigher(RankCandidates[k])} IN
        /\ last.assigned_taxon # None <=> Cardinality(ok) = 1
        /\ last.assigned_taxon # None =>
              \A k \in ok : last.assigned_taxon = Some(RankCandidates[k])
        /\ DOMAIN last.taxonomy_section \subseteq {"taxon_id", primary_rank} =>
              last.assigned_taxon = None

\* A homonym is resolved by a unique higher taxon: two candidates, one
\* assigned
C8_Witness ==
    /\ Resolved
    /\ StatusKind(last.taxon_match.rank_status) = "MultiMatch"
    /\ StatusKind(last.taxon_match.higher_status) = "PutativeMatch"
    /\ Len(RankCandidates) = 2
    /\ last.assigned_taxon # None

\* The entries of the index within the edit distance of the primary name
\* that have the rank of the record
FuzzySameRank ==
    LET key == clean_name(last.taxonomy_section[primary_rank]) IN
    {e \in UNION {SeqToSet(id_map[k]) :
                    k \in {x \in DOMAIN id_map : levenshtein(x, key) <= MAX_EDIT_DIST}} :
        e.rank = primary_rank}

OptionSet(options) == IF options = None THEN {} ELSE SeqToSet(options[1])

\* The names the section gives for ranks above the record's
HigherKeys ==
    {clean_name(last.taxonomy_section[r]) :
        r \in DOMAIN last.taxonomy_section \ {"taxon_id", primary_rank}}

\* The entries of the index within the edit distance of a higher name
FuzzyHigher ==
    UNION {SeqToSet(id_map[k]) :
              k \in {x \in DOMAIN id_map :
                        \E h \in HigherKeys : levenshtein(x, h) <= MAX_EDIT_DIST}}

NoExactPrimary == Resolved /\ ranks_to_check(last.taxonomy_section) # <<>> /\ PrimaryEntries = <<>>

FuzzyOnlyOptions ==
    /\ last.assigned_taxon = None
    /\ StatusKind(last.taxon_match.rank_status) \notin {"Match", "MergeMatch", "PutativeMatch"}
    /\ last.taxon_match.rank_status = None
    /\ OptionSet(last.taxon_match.rank_options) = {CandidateOf(e) : e \in FuzzySameRank}
    /\ OptionSet(last.taxon_match.higher_options) \subseteq
          {CandidateOf(e) : e \in FuzzyHigher}

\* C9 as the specification states it: whenever the normalized primary name
\* has no exact entry in the index, nothing is assigned, the rank status is
\* none of Match, MergeMatch, PutativeMatch, and the fuzzy candidates of the
\* record's rank are in rank_options only.
C9_NoExactNameNeverAssigned == NoExactPrimary => FuzzyOnlyOptions

\* C9, amended: the same, for a section whose taxon_id, if it has one, is
\* not resolved by the direct id lookup.
C9_FuzzyNeverAcceptedUnlessResolvedById ==
    (NoExactPrimary /\ ~ResolvedById) => FuzzyOnlyOptions

\* A typo of a name of the index: fuzzy candidates are reported
C9_Witness ==
    /\ NoExactPrimary
    /\ ~ResolvedById
    /\ Supplied # {}
    /\ Cardinality(OptionSet(last.taxon_match.rank_options)) = 2
    /\ last.taxon_match.higher_options # None

\* C10: when the primary name has exactly one exact entry E and the
\* supplied taxon_id, if any, is not resolved by the direct id lookup: a
\* supplied id equal to E.tax_id gives Match; a supplied id that differs and
\* is not a merged id of E gives Mismatch and no assignment; no supplied id
\* gives PutativeMatch carrying E.
C10_SingleExactEntry ==
    (Resolved /\ ranks_to_check(last.taxonomy_section) # <<>>
              /\ Len(PrimaryEntries) = 1 /\ ~ResolvedById) =>
        LET E == PrimaryEntries[1]
            tm == last.taxon_match
        IN /\ \A t \in Supplied :
                 /\ t = E.tax_id => StatusKind(tm.rank_status) = "Match"
                 /\ (t # E.tax_id /\ ~IsMergedIdOf(t, E.tax_id)) =>
                       /\ StatusKind(tm.rank_status) = "Mismatch"
                       /\ last.assigned_taxon = None
           /\ Supplied = {} =>
                 /\ StatusKind(tm.rank_status) = "PutativeMatch"
                 /\ RankCandidates = <<CandidateOf(E)>>

\* A supplied id that differs from the one entry of the name: Mismatch
C10_Witness ==
    /\ Resolved
    /\ Len(PrimaryEntries) = 1
    /\ ~ResolvedById
    /\ \E t \in Supplied : t # PrimaryEntries[1].tax_id /\ ~IsMergedIdOf(t, PrimaryEntries[1].tax_id)
    /\ StatusKind(last.taxon_match.rank_status) = "Mismatch"

(***************************************************************************)
(* Properties of the dump writer (specification SpecDump)                  *)
(***************************************************************************)
\* The names of a node as a multiset
NameBag(node) ==
    LET S == SeqToSet(node.names) IN
    [n \in S |-> Cardinality({k \in 1..Len(node.names) : node.names[k] = n})]

\* C3: a slice written by write_taxdump and parsed again with the label it
\* was first parsed with gives, for every node written, the tax_id,
\* parent_tax_id and rank it had and the same multiset of names.
C3_WriteThenParseKeepsNodes ==
    (last.op = "parse_written" /\ last.xref_label = last.written_from) =>
        \A t \in DOMAIN tree.nodes :
            /\ t \in DOMAIN pre.nodes
            /\ tree.nodes[t].tax_id = pre.nodes[t].tax_id
            /\ tree.nodes[t].parent_tax_id = pre.nodes[t].parent_tax_id
            /\ tree.nodes[t].rank = pre.nodes[t].rank
            /\ NameBag(tree.nodes[t]) = NameBag(pre.nodes[t])

(***************************************************************************)
(* Further properties of the name resolver (specification SpecMatch)       *)
(***************************************************************************)
PrimaryIds == {PrimaryEntries[k].tax_id : k \in 1..Len(PrimaryEntries)}

\* The index leads from the id t to exactly one taxon, a candidate of the
\* primary name that bears t as a merged taxon id
RedirectsToCandidate(t) ==
    /\ t \in DOMAIN id_map
    /\ Len(id_map[t]) = 1
    /\ id_map[t][1].tax_id \in PrimaryIds
    /\ IsMergedIdOf(t, id_map[t][1].tax_id)

\* C11: when the primary name has several exact entries: a supplied
\* taxon_id equal to the tax_id of a candidate gives Match; one that leads
\* through a merged id to a candidate gives MergeMatch in the result
\* returned; one that matches neither way gives Mismatch; no supplied
\* taxon_id gives MultiMatch carrying all the candidates.
C11_SeveralExactEntries ==
    (Resolved /\ ranks_to_check(last.taxonomy_section) # <<>> /\ Len(PrimaryEntries) > 1) =>
        LET tm == last.taxon_match IN
        /\ \A t \in Supplied :
              /\ t \in PrimaryIds => StatusKind(tm.rank_status) = "Match"
              /\ (t \notin PrimaryIds /\ RedirectsToCandidate(t)) =>
                    StatusKind(tm.rank_status) = "MergeMatch"
              /\ (t \notin PrimaryIds /\ ~RedirectsToCandidate(t)) =>
                    StatusKind(tm.rank_status) = "Mismatch"
        /\ Supplied = {} =>
              /\ StatusKind(tm.rank_status) = "MultiMatch"
              /\ RankCandidates = [k \in 1..Len(PrimaryEntries) |-> CandidateOf(PrimaryEntries[k])]

\* The values of taxon_id that stand for no id
NullIds == {"None", "NA", ""}

\* The section without its taxon_id
WithoutId(taxonomy_section) ==
    [k \in DOMAIN taxonomy_section \ {"taxon_id"} |-> taxonomy_section[k]]

\* What a call returned: the assignment and the statuses of the TaxonMatch
Outcome(assigned, tm) ==
    [assigned_taxon |-> assigned,
     rank_status |-> tm.rank_status, rank_options |-> tm.rank_options,
     higher_status |-> tm.higher_status, higher_options |-> tm.higher_options]

HasNullId ==
    /\ Resolved
    /\ "taxon_id" \in DOMAIN last.taxonomy_section
    /\ last.taxonomy_section["taxon_id"] \in NullIds

\* C12: a section with taxon_id "None", "NA" or "" gets the assignment and
\* the statuses that the same section without taxon_id gets; a taxon_id
\* that is none of these and is a key of the index with one entry gets
\* Match on that entry at once.
C12_NullIdIsNoId ==
    /\ HasNullId =>
          LET r == match_taxonomy_section(WithoutId(last.taxonomy_section), id_map)
          IN Outcome(last.assigned_taxon, last.taxon_match)
                = Outcome(r.assigned_taxon, r.taxon_match)
    /\ (Resolved /\ ResolvedById /\ ~HasNullId) =>
          \A t \in Supplied :
              LET taxon == CandidateOf(id_map[t][1]) IN
              /\ last.assigned_taxon = Some(taxon)
              /\ last.taxon_match.rank_status = Some(Match(taxon))
              /\ last.taxon_match.higher_status = None

(***************************************************************************)
(* Properties of the ingest pipeline (specification SpecIngest)            *)
(***************************************************************************)
Ingested == last.op = "parse_file"

\* The rows that created a node
GraftRows == {k \in 1..Len(last.rows) : last.rows[k].resolved /\ last.rows[k].node # None}

\* The node a row asks for: the alt_taxon_id of the row under the taxon of
\* the higher-rank PutativeMatch, with the rank and the name of the row
GraftOf(row) ==
    LET section == row.processed["taxonomy"]
        rank == ranks_to_check(section)[1]
    IN [tax_id |-> section["alt_taxon_id"],
        parent_tax_id |-> row.taxon_match.higher_status[1].taxa[1].tax_id[1],
        rank |-> rank,
        scientific_name |-> Some(section[rank])]

SameTaxon(node, graft) ==
    /\ node.tax_id = graft.tax_id
    /\ node.parent_tax_id = graft.parent_tax_id
    /\ node.rank = graft.rank
    /\ node.scientific_name = graft.scientific_name

\* C13: every node that parse_file returns is the graft of a row (tax_id
\* the alt_taxon_id, parent the taxon of the higher-rank PutativeMatch,
\* rank and scientific name those of the row), every row that created a
\* node has its alt_taxon_id among the nodes, and a node that is not its
\* own parent is in children[parent] exactly once, also when several rows
\* have the same alt_taxon_id.
C13_GraftedTaxonIsTheRowsTaxon ==
    Ingested =>
        /\ \A t \in DOMAIN last.nodes.nodes :
              /\ last.nodes.nodes[t].tax_id = t
              /\ \E k \in GraftRows : SameTaxon(last.nodes.nodes[t], GraftOf(last.rows[k]))
              /\ last.nodes.nodes[t].parent_tax_id # t =>
                    ChildCount(last.nodes.children, last.nodes.nodes[t].parent_tax_id, t) = 1
        /\ \A k \in GraftRows :
              /\ SameTaxon(last.rows[k].node[1], GraftOf(last.rows[k]))
              /\ last.rows[k].node[1].tax_id \in DOMAIN last.nodes.nodes
        /\ \A p \in DOMAIN last.nodes.children :
              \A c \in BagToSet(last.nodes.children[p]) :
                  /\ c \in DOMAIN last.nodes.nodes
                  /\ last.nodes.nodes[c].parent_tax_id = p
                  /\ CopiesIn(c, last.nodes.children[p]) = 1

\* Two rows with one alt_taxon_id each created a node, under different
\* parents
C13_Witness ==
    /\ Ingested
    /\ \E j, k \in GraftRows :
          /\ j # k
          /\ last.rows[j].node[1].tax_id = last.rows[k].node[1].tax_id
          /\ last.rows[j].node[1].parent_tax_id # last.rows[k].node[1].parent_tax_id
    /\ Cardinality(DOMAIN last.nodes.nodes) = 1

\* What the specification asks of a row for a new taxon
ShouldGraft(row) ==
    LET section == row.processed["taxonomy"] IN
    /\ row.assigned_taxon = None
    /\ "alt_taxon_id" \in DOMAIN section
    /\ section["alt_taxon_id"] \notin {"None", "NA"}
    /\ StatusKind(row.taxon_match.higher_status) = "PutativeMatch"

\* C14: a row creates a new taxon exactly when the resolver assigned none,
\* the row has an alt_taxon_id that is not "None" or "NA", and the
\* higher-rank status is a PutativeMatch; no taxon has tax_id "None" or
\* "NA".
C14_GraftExactlyWhenUnassignedWithAltId ==
    Ingested =>
        /\ \A k \in 1..Len(last.rows) :
              last.rows[k].resolved =>
                  (last.rows[k].node # None <=> ShouldGraft(last.rows[k]))
        /\ DOMAIN last.nodes.nodes \cap {"None", "NA"} = {}

(***************************************************************************)
(* C15.  Validation of a value never aborts the row.                       *)
(***************************************************************************)
Validated == last.op = "nodes_from_file"

NumericTypes == {"byte", "short", "integer", "long", "double", "float", "half_float"}

\* The raw value is text that is no number, a number outside the range of
\* the declared integer type, or a number below min or above max
FailsValidation(field, value) ==
    LET number == parse_float(value)
        constraint == IF field.constraint # None THEN field.constraint[1]
                      ELSE ConstraintConfig_default
    IN /\ field.field_type \in NumericTypes
       /\ \/ ~number.ok
          \/ /\ field.field_type \in {"byte", "short", "integer", "long"}
             /\ \/ number.v < IntRange(field.field_type).lo * 100
                \/ number.v > IntRange(field.field_type).hi * 100
          \/ constraint.min # None /\ number.v < constraint.min[1] * 100
          \/ constraint.max # None /\ number.v > constraint.max[1] * 100

\* C15: whatever the field type and the raw value, the row is processed to
\* the end (nodes_from_file returns, the other attribute keeps its value
\* and the taxonomy of the row goes to the resolver), and a value that is
\* no number of the declared type or lies outside min..max becomes "None".
C15_ValidationNeverAbortsRow ==
    Validated =>
        LET field == last.ghubs_config.attributes[1]["length"]
            value == last.file.records[1][3]
        IN /\ last.status = "ok"
           /\ Len(last.rows) = 1
           /\ last.rows[1].resolved
           /\ last.rows[1].processed["attributes"]["habitat"] = "forest"
           /\ (field.function = None /\ FailsValidation(field, value))
                 => last.rows[1].processed["attributes"]["length"] = "None"

(***************************************************************************)
(* C16.  The config that needs another wins where both define a value.     *)
(***************************************************************************)
ConfigRead ==
    /\ last.op = "parse_genomehubs_config"
    /\ "inner.yaml" \in DOMAIN last.files

Groups == {"attributes", "taxonomy", "taxon_names"}

KeysOf(fields) == IF fields = None THEN {} ELSE DOMAIN fields[1]

\* The field options held as Option<..>
Options == DOMAIN GHubsFieldConfig_default \ {"field_type"}

\* C16: the config read from a file that needs another has, for `file`
\* and for every option of a field both define, the value of the needing
\* config when it defines one and the value of the needed config otherwise;
\* a field only one of them defines is that one's; the keys of each group
\* are the union of the keys of both.
C16_NeedingConfigWins ==
    ConfigRead =>
        LET outer == last.files["outer.yaml"]
            inner == last.files["inner.yaml"]
            merged == last.config
        IN /\ last.ok
           /\ merged.file = Option_or(outer.file, inner.file)
           /\ \A g \in Groups :
                 /\ KeysOf(merged[g]) = KeysOf(outer[g]) \cup KeysOf(inner[g])
                 /\ \A field \in KeysOf(merged[g]) :
                       IF field \in KeysOf(outer[g]) /\ field \in KeysOf(inner[g])
                       THEN \A o \in Options :
                               merged[g][1][field][o] =
                                  Option_or(outer[g][1][field][o], inner[g][1][field][o])
                       ELSE IF field \in KeysOf(outer[g])
                       THEN merged[g][1][field] = outer[g][1][field]
                       ELSE merged[g][1][field] = inner[g][1][field]

(***************************************************************************)
(* C17.  write_taxdump writes no node twice (specification SpecDump).      *)
(***************************************************************************)
\* How many lines of a file written are lines of the taxon t
LinesOf(lines, t) ==
    Cardinality({k \in 1..Len(lines) : separated_list0(lines[k]).v[1] = t})

\* C17: for every list of root ids and every base id, the nodes output of
\* write_taxdump holds at most one line for each node of the tree, and the
\* names output holds for each node no more lines than the node has names.
C17_EachNodeWrittenAtMostOnce ==
    last.op = "write_taxdump" =>
        \A t \in DOMAIN tree.nodes :
            /\ LinesOf(last.nodes, t) <= 1
            /\ LinesOf(last.names, t) <= Len(tree.nodes[t].names)

(***************************************************************************)
(* C18.  What lineage returns (specification Spec).                        *)
(***************************************************************************)
\* The id reached from t by k parent links (the walk stays on an id that
\* is no node of the tree)
RECURSIVE Up(_, _, _)
Up(nodes, t, k) ==
    IF k = 0 THEN t
    ELSE LET u == Up(nodes, t, k - 1) IN
         IF u \in DOMAIN nodes THEN nodes[u].parent_tax_id ELSE u

\* The numbers of parent links that lead from t to r
Dist(nodes, r, t) == {k \in 1..Cardinality(DOMAIN nodes) : Up(nodes, t, k) = r}

\* The least of them
Hops(nodes, r, t) == CHOOSE k \in Dist(nodes, r, t) : \A j \in Dist(nodes, r, t) : k <= j

\* r is a node above t
Above(nodes, r, t) == r # t /\ r \in DOMAIN nodes /\ Dist(nodes, r, t) # {}

\* C18 (as stated): lineage(root_id, tax_id) is the list of the nodes
\* between root_id and tax_id, from the node just below root_id down to
\* the parent of tax_id: neither root_id nor tax_id is in it, and it is
\* empty when tax_id is root_id or a child of root_id.
C18_LineageFromBelowRoot ==
    \A t \in DOMAIN tree.nodes, r \in DOMAIN tree.nodes :
        LET lin == lineage(tree.nodes, r, t) IN
        /\ t = r => lin = <<>>
        /\ Above(tree.nodes, r, t) =>
              LET d == Hops(tree.nodes, r, t) IN
              /\ Len(lin) = d - 1
              /\ \A i \in 1..(d - 1) : lin[i] = tree.nodes[Up(tree.nodes, t, d - i)]

\* C18 (amended): lineage(root_id, tax_id), for root_id a node above
\* tax_id, is the list of the ancestors of tax_id from the node root_id
\* itself down to the parent of tax_id: root_id is its first node, tax_id
\* is not in it, and for a child of root_id it is the node root_id alone.
\* It is empty when tax_id is root_id.
C18_LineageFromRoot ==
    \A t \in DOMAIN tree.nodes, r \in DOMAIN tree.nodes :
        LET run == lineage_run(tree.nodes, r, t)
            lin == run.nodes
        IN /\ t = r => lin = <<>>
           /\ Above(tree.nodes, r, t) =>
                 LET d == Hops(tree.nodes, r, t) IN
                 /\ run.status = "ok"
                 /\ Len(lin) = d
                 /\ \A i \in 1..d : lin[i] = tree.nodes[Up(tree.nodes, t, d - i + 1)]
                 /\ lin[1].tax_id = r
                 /\ \A i \in 1..d : lin[i].tax_id # t

\* A tree with a node three links below another and a child of that other
C18_Witness ==
    \E t \in DOMAIN tree.nodes, r \in DOMAIN tree.nodes, c \in DOMAIN tree.nodes :
        /\ Above(tree.nodes, r, t) /\ Hops(tree.nodes, r, t) = 3
        /\ Len(lineage(tree.nodes, r, t)) = 3
        /\ Above(tree.nodes, r, c) /\ Hops(tree.nodes, r, c) = 1
        /\ lineage(tree.nodes, r, c) = <<tree.nodes[r]>>

(***************************************************************************)
(* C19.  parent and lineage on the root, on an unknown id and on a chain   *)
(* that loops (specification Spec).                                        *)
(***************************************************************************)
\* An id no input taxonomy holds
UnknownId == "404"

\* C19: in every tree reached, parent returns (it does not panic) and
\* returns None for a self-parented root node and for an id that is not in
\* the tree; lineage returns for every root_id and every tax_id, unknown
\* ids and looping parent chains included.
C19_LookupsFailSoft ==
    last.op # "new" =>
        \A t \in DOMAIN tree.nodes \cup {UnknownId} :
            /\ parent_run(tree.nodes, t).status = "ok"
            /\ (t \notin DOMAIN tree.nodes \/ tree.nodes[t].parent_tax_id = t)
                  => parent_run(tree.nodes, t).node = None
            /\ \A r \in RootIds : lineage_run(tree.nodes, r, t).status = "ok"

(***************************************************************************)
(* C20.  What merge may change (specification Spec).                       *)
(***************************************************************************)
\* C20: after tree.merge(other), every node the tree held is still a node
\* of the tree, and a node that is not as it was (in tax_id, parent_tax_id,
\* rank, names or scientific_name) had rank "no rank" and is a node of
\* other with a rank that is not "no rank".
C20_MergeChangesOnlyUnrankedGainingRank ==
    last.op = "merge" =>
        \A k \in DOMAIN pre.nodes :
            /\ k \in DOMAIN tree.nodes
            /\ tree.nodes[k] # pre.nodes[k] =>
                  /\ pre.nodes[k].rank = NO_RANK
                  /\ k \in DOMAIN last.new_nodes.nodes
                  /\ last.new_nodes.nodes[k].rank # NO_RANK

(***************************************************************************)
(* C21.  One scientific name per node (specification SpecSources).         *)
(***************************************************************************)
ScientificNames(node) ==
    {k \in 1..Len(node.names) : node.names[k].class = Some(SCIENTIFIC_NAME)}

OneScientificName(node) ==
    /\ Cardinality(ScientificNames(node)) <= 1
    /\ \A k \in ScientificNames(node) : node.scientific_name = Some(node.names[k].name)

\* The trees the operations produce: the tree store and, after parse_file,
\* the tree of the grafted taxa
TreesProduced ==
    {tree.nodes} \cup (IF last.op = "parse_file" THEN {last.nodes.nodes} ELSE {})

\* C21: in every tree the parsers, merge and parse_file produce, a node has
\* at most one Name of class "scientific name", and the name of that Name
\* is the scientific_name of the node, also when the source has several
\* scientific-name records for one tax_id.
C21_AtMostOneScientificName ==
    \A nodes \in TreesProduced : \A t \in DOMAIN nodes : OneScientificName(nodes[t])

(***************************************************************************)
(* C22.  What parse_gbif makes of a row, by its status (specification      *)
(* SpecGbif).                                                              *)
(***************************************************************************)
SynonymStatuses ==
    {"SYNONYM", "HOMOTYPIC_SYNONYM", "HETEROTYPIC_SYNONYM", "PROPARTE_SYNONYM",
     "MISAPPLIED", "DOUBTFUL"}

\* Some node of the tree has a Name with the name of the row and the class
HasName(nodes, row, class) ==
    \E t \in DOMAIN nodes : \E k \in 1..Len(nodes[t].names) :
        nodes[t].names[k].name = row.name /\ nodes[t].names[k].class = Some(class)

\* The rows of a backbone with a status parse_gbif is to act on
Recognised(backbone) ==
    {backbone[k] : k \in {j \in 1..Len(backbone) :
                            backbone[j].status \in SynonymStatuses \cup {"ACCEPTED"}}}

\* C22: after parse_gbif, a row of status ACCEPTED has a node with its
\* name as scientific name; a row of a synonym status (SYNONYM,
\* HOMOTYPIC_SYNONYM, HETEROTYPIC_SYNONYM, PROPARTE_SYNONYM, MISAPPLIED,
\* DOUBTFUL) has left a Name of class "synonym" with its name; a row of any
\* other status has left neither a node nor a name.
C22_StatusDecidesOutcome ==
    last.op = "parse_gbif" =>
        \A k \in 1..Len(last.gbif_backbone) :
            LET row == last.gbif_backbone[k] IN
            IF row.status = "ACCEPTED"
            THEN /\ row.tax_id \in DOMAIN tree.nodes
                 /\ HasName(tree.nodes, row, SCIENTIFIC_NAME)
            ELSE IF row.status \in SynonymStatuses
            THEN HasName(tree.nodes, row, SYNONYM)
            ELSE /\ row.tax_id \in DOMAIN tree.nodes
                       => \E other \in Recognised(last.gbif_backbone) :
                             other.tax_id = row.tax_id
                 /\ \A class \in {SCIENTIFIC_NAME, SYNONYM} :
                       HasName(tree.nodes, row, class)
                          => \E other \in Recognised(last.gbif_backbone) :
                                other.name = row.name

(***************************************************************************)
(* C23.  rank_letter on the ranks of the index (specification SpecRank).   *)
(***************************************************************************)
\* C23: two nodes with different ranks, both among subspecies, species,
\* genus, family, order, class, phylum and kingdom, have different rank
\* letters (subspecies has "b", every other rank its first character),
\* and the index keys built for them differ.
C23_RankLetterInjective ==
    (/\ last.op = "rank_letter"
     /\ last.a.rank \in rank_set /\ last.b.rank \in rank_set
     /\ last.a.rank # last.b.rank) =>
        /\ last.letters[1] # last.letters[2]
        /\ last.keys[1] # last.keys[2]
        /\ \A i \in 1..2 :
              last.letters[i] = IF <<last.a, last.b>>[i].rank = "subspecies" THEN "b"
                                ELSE Head(<<last.a, last.b>>[i].rank)

\* The letters of a subspecies and a species, whose ranks share the first
\* character, for nodes of one name
C23_Witness ==
    /\ last.op = "rank_letter"
    /\ last.a.rank = "subspecies" /\ last.b.rank = "species"
    /\ last.letters = <<"b", "s">>
    /\ last.keys = <<"b:aa:f:fa", "s:aa:f:fa">>

(***************************************************************************)
(* C24.  Parsing one dump line (specification SpecLine).                   *)
(***************************************************************************)
\* C24: a line is split on tab-pipe-tab and its leading fields are taken
\* by position: tax_id, parent_tax_id and rank of a node; tax_id, name,
\* unique_name and class of a name.  Further fields are ignored and the
\* final tab-pipe is left unconsumed.  An empty unique_name field gives
\* the unique_name "" without an xref label and "{xref_label}:{name}"
\* with one.
C24_LineParsedByPosition ==
    last.op = "parse_line" =>
        /\ last.node = [tax_id |-> last.fields[1], parent_tax_id |-> last.fields[2],
                        rank |-> last.fields[3], names |-> None,
                        scientific_name |-> None]
        /\ last.name.tax_id = last.fields[1]
        /\ last.name.name = last.fields[2]
        /\ last.name.class = Some(last.fields[4])
        /\ last.name.unique_name =
              IF last.fields[3] # "" THEN last.fields[3]
              ELSE IF last.xref_label = None THEN ""
              ELSE last.xref_label[1] \o ":" \o last.fields[2]
        /\ last.rest = "\t|"

\* A name line with an empty unique_name field and further fields, parsed
\* with the label x
C24_Witness ==
    /\ last.op = "parse_line"
    /\ last.input = "1\t|\tall\t|\t\t|\tsynonym\t|\t\t|\t11\t|\t0\t|"
    /\ last.xref_label = Some("x")
    /\ last.name = [tax_id |-> "1", name |-> "all", unique_name |-> "x:all",
                    class |-> Some("synonym")]
    /\ last.rest = "\t|"

(***************************************************************************)
(* C25.  The integer values the pipeline emits (specification              *)
(* SpecValidate).                                                          *)
(***************************************************************************)
IntegerTypes == {"byte", "short", "integer", "long"}

\* The text is a number within the constraint and within the range of the
\* integer type
WithinBounds(text, field) ==
    LET number == parse_float(text) IN
    /\ number.ok
    /\ number.v >= IntRange(field.field_type).lo * 100
    /\ number.v <= IntRange(field.field_type).hi * 100
    /\ field.constraint[1].min # None => number.v >= field.constraint[1].min[1] * 100
    /\ field.constraint[1].max # None => number.v <= field.constraint[1].max[1] * 100

\* C25: for a field of type byte, short, integer or long with a constraint
\* {min, max}, a value the pipeline emits is "None" or a number within
\* [min, max] and within the range of the type; a value with a fractional
\* part that is above max or below min is not emitted as it came.
C25_EmittedIntegerWithinBounds ==
    (/\ Validated /\ last.status = "ok"
     /\ last.ghubs_config.attributes[1]["length"].field_type \in IntegerTypes
     /\ last.ghubs_config.attributes[1]["length"].constraint # None) =>
        LET field == last.ghubs_config.attributes[1]["length"]
            emitted == last.rows[1].processed["attributes"]["length"]
        IN emitted = "None" \/ WithinBounds(emitted, field)

(***************************************************************************)
(* C26.  Lower ranks given as context (specification SpecContext).         *)
(***************************************************************************)
\* C26: two sections with the same taxon_id, primary rank and higher
\* ranks, which differ only in the values under the keys subspecies,
\* species and genus that follow the primary rank, get from
\* match_taxonomy_section on one index the same assignment and the same
\* TaxonMatch (taxon, taxon_id, rank and higher statuses and options).
C26_LowerRankContextIgnored ==
    last.op = "match_pair" =>
        /\ last.assigned_taxon[1] = last.assigned_taxon[2]
        /\ last.taxon_match[1] = last.taxon_match[2]

\* Two sections with different genus values, one of them a name the index
\* holds, resolved to a taxon
C26_Witness ==
    /\ last.op = "match_pair"
    /\ "genus" \in DOMAIN last.sections[1]
    /\ last.sections[1]["genus"] = "Felidae"
    /\ last.sections[2]["genus"] = "Panthera"
    /\ last.assigned_taxon[1] # None
    /\ last.taxon_match[1].higher_status # None

(***************************************************************************)
(* C27.  Rows of one data file are resolved one by one (SpecRows).         *)
(***************************************************************************)
\* C27: what the resolver decides for a row (the assignment and the
\* TaxonMatch) is the same in a file of that row alone and in a file where
\* other rows come before it, read over the same index: the rows before,
\* and the nodes created for them, do not change it.
C27_RowResolvedAlone ==
    last.op = "parse_file_pair" =>
        /\ last.alone.resolved = last.after.resolved
        /\ last.alone.assigned_taxon = last.after.assigned_taxon
        /\ last.alone.taxon_match = last.after.taxon_match

\* A row that comes after a row of the same species for which a node was
\* created, and is itself not assigned
C27_Witness ==
    /\ last.op = "parse_file_pair"
    /\ last.before_rows[1].node # None
    /\ last.before[1][3] = last.record[3]
    /\ last.after.assigned_taxon = None
    /\ last.after.node # None

(***************************************************************************)
(* C28.  Cross-references of lookup_nodes (specification SpecXref).        *)
(***************************************************************************)
\* The tax_ids that the table of the tree before the call holds alone
\* under a key of the incoming node: its own name under the name of an
\* ancestor of a higher rank
KeyedTaxIds(node) ==
    LET table == build_lookup(pre, {SCIENTIFIC_NAME}, TRUE)
        lin == lineage(last.new_nodes.nodes, ROOT_ID, node.tax_id)
        names == names_by_class(node, {SCIENTIFIC_NAME})
    IN {table[key][1] :
           key \in {k \in {rank_letter_key(node, names[i], lin[j],
                                           names_by_class(lin[j], {SCIENTIFIC_NAME})[h]) :
                              i \in 1..Len(names),
                              j \in {a \in 1..Len(lin) : lin[a].rank \in higher_rank_set
                                        /\ names_by_class(lin[a], {SCIENTIFIC_NAME}) # <<>>},
                              h \in {1}}
                           : k \in DOMAIN table /\ Len(table[k]) = 1}}

\* The cross-reference to the incoming node
XrefName(ref_tax_id, node) ==
    [tax_id |-> ref_tax_id, name |-> node.tax_id,
     unique_name |-> (IF last.xref_label # None THEN last.xref_label[1] ELSE "")
                     \o ":" \o node.tax_id,
     class |-> last.xref_label]

\* Ranked incoming nodes with a key that maps to one tax_id
KeyedNodes ==
    {t \in DOMAIN last.new_nodes.nodes :
        /\ last.new_nodes.nodes[t].rank \in SeqToSet(LOOKUP_RANKS)
        /\ lineage_run(last.new_nodes.nodes, ROOT_ID, t).status = "ok"
        /\ KeyedTaxIds(last.new_nodes.nodes[t]) # {}}

\* C28: after lookup_nodes every incoming node of rank family, genus,
\* species or subspecies with a key that maps to exactly one tax_id has
\* its cross-reference Name among the names of such a tax_id, whatever
\* other nodes of its rank were matched; and with create_taxa false the
\* tree has the nodes it had.
C28_EveryMatchedTaxonCrossReferenced ==
    last.op = "lookup_nodes" =>
        /\ \A t \in KeyedNodes :
              \E ref_tax_id \in KeyedTaxIds(last.new_nodes.nodes[t]) :
                 XrefName(ref_tax_id, last.new_nodes.nodes[t])
                     \in SeqToSet(tree.nodes[ref_tax_id].names)
        /\ ~last.create_taxa => DOMAIN tree.nodes = DOMAIN pre.nodes

(***************************************************************************)
(* C29.  Candidate lists of the indices (specification SpecIndex).         *)
(***************************************************************************)
NoRepeats(seq) == \A i, j \in 1..Len(seq) : seq[i] = seq[j] => i = j

\* C29: in the table of build_lookup and in the map of build_fast_lookup
\* the list under every key holds each tax_id at most once, also for a
\* taxon with two names that are the same after lowercasing.
C29_CandidatesHoldEachTaxIdOnce ==
    last.op = "build_lookup" =>
        /\ \A key \in DOMAIN last.table : NoRepeats(last.table[key])
        /\ \A key \in DOMAIN id_map :
              NoRepeats([i \in 1..Len(id_map[key]) |-> id_map[key][i].tax_id])

(***************************************************************************)
(* C30.  The grid of calculate_grid_size (specification SpecGrid).         *)
(***************************************************************************)
\* C30: for num_items >= 1 calculate_grid_size returns (rows, cols) with
\* rows <= cols <= rows + 1 and rows * cols >= num_items, and no grid of
\* that shape with fewer cells holds num_items: 23 gives (5, 5), 37 gives
\* (6, 7), 5 gives (2, 3) and 16 gives (4, 4).
C30_SmallestNearSquareGrid ==
    (last.op = "calculate_grid_size" /\ last.num_items >= 1) =>
        LET rows == last.grid_size[1]
            cols == last.grid_size[2]
        IN /\ rows <= cols /\ cols <= rows + 1
           /\ rows * cols >= last.num_items
           /\ \A r \in 1..last.num_items : \A c \in {r, r + 1} :
                 r * c >= last.num_items => rows * cols <= r * c
           /\ last.num_items = 23 => last.grid_size = <<5, 5>>
           /\ last.num_items = 37 => last.grid_size = <<6, 7>>
           /\ last.num_items = 5 => last.grid_size = <<2, 3>>
           /\ last.num_items = 16 => last.grid_size = <<4, 4>>

=============================================================================
